---- MODULE Spec2Model ----
(***************************************************************************)
(* Verification model of the Realm file reader (realm-db-reader).          *)
(*                                                                         *)
(* The reader is a set of pure decoding routines over an immutable file    *)
(* plus a small amount of per-handle cache state.  The module is organised *)
(* as several specifications over one set of variables, one per subsystem: *)
(*                                                                         *)
(*   SpecIndex : the on-disk string index and Index::find_first            *)
(*   SpecTable : Group / Table row and column caches and indexed probes    *)
(*   SpecLeaf  : array nodes, column leaves and the B+Tree of a column     *)
(*   SpecRow   : Row::new and the models declared with realm_model!        *)
(*   SpecValue : the conversions from Value                                *)
(*                                                                         *)
(* Strings are sequences of bytes (naturals below 256).  A node reference  *)
(* is represented by the node it addresses: the file is immutable and its  *)
(* node graph is a DAG, so a nested record is the node behind the ref.     *)
(***************************************************************************)
EXTENDS Integers, Sequences, FiniteSets, TLC

VARIABLES
    mode,        \* which subsystem this behaviour exercises
    idxColumn,   \* index: the values of the indexed column, one per row
    idxRoot,     \* index: the root index node stored in the file
    fPc,         \* find_first: "idle", "loop" or "done"
    fProbe,      \* find_first: the probe string handed to the call
    fValue,      \* find_first: `value` (the coerced probe)
    fOffset,     \* find_first: `value_offset`
    fKey,        \* find_first: `key`
    fCur,        \* find_first: `current_index`
    fResult,     \* find_first: the outcome of the call
    tblFile,       \* table: the cells in the file, tblFile[c][r] (column-major)
    grpTables,     \* Group.tables: TRUE where the table is loaded
    data_columns,  \* Table.data_columns: per column, the cells read so far
    data_rows,     \* Table.data_rows: the rows assembled so far
    indexes,       \* Table.indexes: the columns whose index is loaded
    tRet,          \* table: the last call and what it returned
    firstRow,      \* table: per row, what the first get_row of it returned
    leafKind,      \* leaf: the column type whose leaf this is
    fileNodes,     \* leaf: the nodes of the file, by ref
    leafRef,       \* leaf: ref of the column stored as one root leaf
    treeRef,       \* leaf: ref of the same column stored under an inner root
    lRet,          \* leaf: the last read and what it returned
    rowCells,      \* row: the table row's columns and cells, in column order
    rowObj,        \* row: the Row built from the cells, if any
    vRet,          \* row: the last conversion and what it returned
    mmap,          \* file: the bytes of the mapped file
    realm,         \* file: the Realm handle returned by Realm::open, if any
    rnode,         \* file: the RealmNode returned by the last from_ref, if any
    fileRet,       \* file: the last call and what it returned
    shFile,        \* shared: the table's cells in the one shared file mapping
    handles,       \* shared: per Table handle, its caches and loaded indexes
    calls,         \* shared: per caller, the call in progress or last finished
    optRows,       \* nullable integers: the rows the column was written with
    optNode,       \* nullable integers: the leaf node holding them
    optRet,        \* nullable integers: the last read and what it returned
    fnInput,       \* decoders: the input handed to the decoding function
    fnRet          \* decoders: the last call and what it returned

idxVars == <<idxColumn, idxRoot, fPc, fProbe, fValue, fOffset, fKey, fCur, fResult>>

tblState == <<grpTables, data_columns, data_rows, indexes>>

tblVars == <<tblFile, tblState, tRet, firstRow>>

leafVars == <<leafKind, fileNodes, leafRef, treeRef, lRet>>

rowVars == <<rowCells, rowObj, vRet>>

fileVars == <<mmap, realm, rnode, fileRet>>

\* the variables of the subsystems other than index, table, leaf and row
concVars == <<shFile, handles, calls>>

optVars == <<optRows, optNode, optRet>>

fnVars == <<fnInput, fnRet>>

extVars == <<fileVars, concVars, optVars, fnVars>>

vars == <<mode, idxVars, tblVars, leafVars, rowVars, extVars>>

(***************************************************************************)
(* Generic helpers                                                         *)
(***************************************************************************)
Range(s) == {s[i] : i \in 1..Len(s)}

Min2(a, b) == IF a < b THEN a ELSE b

RECURSIVE SortedSeq(_)
SortedSeq(S) ==
    IF S = {} THEN <<>>
    ELSE LET m == CHOOSE x \in S : \A y \in S : x <= y
         IN  <<m>> \o SortedSeq(S \ {m})

\* The element of a one-element set: binds an intermediate result once.
The(S) == CHOOSE x \in S : TRUE

\* Outcomes of a call: a value, or a panic (Rust `panic!`, failed `assert!`,
\* out-of-range slice index).
Panic == [kind |-> "panic"]
NoneResult == [kind |-> "none"]
SomeResult(r) == [kind |-> "some", row |-> r]

(***************************************************************************)
(* Each specification exercises one subsystem; the variables of the others *)
(* rest at these values and are left unchanged by its actions.             *)
(***************************************************************************)
NoNode == [inner |-> FALSE, keys |-> <<>>, slots |-> <<>>]

NoCall == [op |-> "none", kind |-> "ok"]

IndexIdle ==
    /\ idxColumn = <<>>
    /\ idxRoot = NoNode
    /\ fPc = "idle"
    /\ fProbe = <<>>
    /\ fValue = <<>>
    /\ fOffset = 0
    /\ fKey = 0
    /\ fCur = NoNode
    /\ fResult = NoneResult

TableIdle ==
    /\ tblFile = <<>>
    /\ grpTables = <<>>
    /\ data_columns = <<>>
    /\ data_rows = <<>>
    /\ indexes = {}
    /\ tRet = NoCall
    /\ firstRow = <<>>

LeafIdle ==
    /\ leafKind = "int"
    /\ fileNodes = <<>>
    /\ leafRef = 0
    /\ treeRef = 0
    /\ lRet = NoCall

NoRow == [kind |-> "norow"]

RowIdle ==
    /\ rowCells = <<>>
    /\ rowObj = NoRow
    /\ vRet = NoCall

NoRealm == [kind |-> "norealm"]

FileIdle ==
    /\ mmap = <<>>
    /\ realm = NoRealm
    /\ rnode = NoRealm
    /\ fileRet = NoCall

ConcIdle ==
    /\ shFile = <<>>
    /\ handles = <<>>
    /\ calls = <<>>

OptIdle ==
    /\ optRows = <<>>
    /\ optNode = <<>>
    /\ optRet = NoCall

FnIdle ==
    /\ fnInput = <<>>
    /\ fnRet = NoCall

ExtIdle == FileIdle /\ ConcIdle /\ OptIdle /\ FnIdle

IndexFrame == UNCHANGED <<mode, tblVars, leafVars, rowVars, extVars>>

TableFrame == UNCHANGED <<mode, idxVars, leafVars, rowVars, extVars>>

LeafFrame == UNCHANGED <<mode, idxVars, tblVars, rowVars, extVars>>

RowFrame == UNCHANGED <<mode, idxVars, tblVars, leafVars, extVars>>

FileFrame == UNCHANGED <<mode, idxVars, tblVars, leafVars, rowVars, concVars, optVars, fnVars>>

ConcFrame == UNCHANGED <<mode, idxVars, tblVars, leafVars, rowVars, fileVars, optVars, fnVars>>

OptFrame == UNCHANGED <<mode, idxVars, tblVars, leafVars, rowVars, fileVars, concVars, fnVars>>

FnFrame == UNCHANGED <<mode, idxVars, tblVars, leafVars, rowVars, fileVars, concVars, optVars>>

(***************************************************************************)
(* Bounds of the model                                                     *)
(***************************************************************************)
NumRows == 3        \* rows of the indexed column
IndexNodeMax == 2   \* keys per index node before the writer splits it

(***************************************************************************)
(* Index: the file contents (written by the database, read by the reader)  *)
(***************************************************************************)
ByteX == 88         \* b'X'
KEY_SIZE == 4

ShortStrings == {<<>>, <<97>>, <<98>>}
LongPrefix == <<97, 97, 97, 97>>
IndexValues == ShortStrings \cup {LongPrefix \o s : s \in ShortStrings}

IndexColumns == UNION {[1..n -> IndexValues] : n \in 1..NumRows}

\* The key the file format stores for `bytes` at `offset`: the value followed
\* by 'X', four bytes from `offset`, zero padded, packed big-endian.
StoredKey(bytes, offset) ==
    LET ext == bytes \o <<ByteX>>
        b(i) == IF offset + i <= Len(ext) THEN ext[offset + i] ELSE 0
    IN  IF offset > Len(bytes) THEN 0
        ELSE b(1) * 16777216 + b(2) * 65536 + b(3) * 256 + b(4)

TaggedSlot(row) == [kind |-> "tagged", row |-> row]
BucketSlot(rows) == [kind |-> "bucket", rows |-> rows]
SubIndexSlot(node) == [kind |-> "sub", node |-> node]
ChildSlot(node) == [kind |-> "child", node |-> node]

IndexLeafNode(keys, slots) == [inner |-> FALSE, keys |-> keys, slots |-> slots]

\* An index level with more than IndexNodeMax keys is stored as an inner
\* B+Tree node over leaves of at most IndexNodeMax keys; the inner node's
\* keys are the last key of each child.
SplitIndexNode(keys, slots) ==
    LET n == Len(keys)
        chunks == (n + IndexNodeMax - 1) \div IndexNodeMax
        lo(c) == (c - 1) * IndexNodeMax + 1
        hi(c) == Min2(c * IndexNodeMax, n)
        child(c) == IndexLeafNode(SubSeq(keys, lo(c), hi(c)), SubSeq(slots, lo(c), hi(c)))
    IN  IF n <= IndexNodeMax THEN IndexLeafNode(keys, slots)
        ELSE [inner |-> TRUE,
              keys  |-> [c \in 1..chunks |-> keys[hi(c)]],
              slots |-> [c \in 1..chunks |-> ChildSlot(child(c))]]

\* `col` is indexed from 1 (row number r is col[r + 1]); the slots hold row
\* numbers, which start at 0.
RECURSIVE BuildIndexNode(_, _, _)
BuildIndexNode(col, rows, offset) ==
    LET keys == SortedSeq({StoredKey(col[r], offset) : r \in rows})
        rowsOf(k) == {r \in rows : StoredKey(col[r], offset) = k}
        slot(k) ==
            LET R == rowsOf(k)
            IN  IF Cardinality(R) = 1 THEN TaggedSlot((CHOOSE r \in R : TRUE) - 1)
                ELSE IF \A r1, r2 \in R : col[r1] = col[r2]
                     THEN BucketSlot(SortedSeq({r - 1 : r \in R}))
                     ELSE SubIndexSlot(BuildIndexNode(col, R, offset + KEY_SIZE))
    IN  SplitIndexNode(keys, [i \in 1..Len(keys) |-> slot(keys[i])])

BuildIndex(col) == BuildIndexNode(col, 1..Len(col), 0)

(***************************************************************************)
(* Index::find_first and its helpers                                       *)
(***************************************************************************)
\* Index::create_key: at most KEY_SIZE characters, character i shifted left
\* by i * 8.
create_key(value) ==
    LET n == Min2(Len(value), KEY_SIZE)
        term(i) == IF i <= n
                   THEN value[i] * (CASE i = 1 -> 1 [] i = 2 -> 256
                                      [] i = 3 -> 65536 [] OTHER -> 16777216)
                   ELSE 0
    IN  term(1) + term(2) + term(3) + term(4)

\* Index::create_key_with_offset.  -1 stands for the panic of writing
\* buf[i] with i >= KEY_SIZE.
create_key_with_offset(value, offset) ==
    IF offset > Len(value) THEN 0
    ELSE LET tail == Len(value) - offset
         IN  IF tail < KEY_SIZE
             THEN IF Len(value) > KEY_SIZE THEN -1
                  ELSE LET buf0 == [i \in 1..KEY_SIZE |-> IF i = tail + 1 THEN ByteX ELSE 0]
                           buf  == [i \in 1..KEY_SIZE |->
                                       IF i <= Len(value) THEN value[i] ELSE buf0[i]]
                       IN  create_key(buf)
             ELSE create_key(SubSeq(value, offset + 1, Len(value)))

\* One halving step of the binary search: (A), (X), (Y) and (Z) in the source.
\* `oob` records a read of an element at an index >= the number of keys.
LowerBoundStep(keys, st, value) ==
    LET half == st.size \div 2
        other_half == st.size - half
        probe == st.low + half
        other_low == st.low + other_half
        inRange == probe < Len(keys)
        v == IF inRange THEN keys[probe + 1] ELSE 0
    IN  [low  |-> IF v < value THEN other_low ELSE st.low,
         size |-> half,
         oob  |-> st.oob \/ ~inRange]

RECURSIVE LowerBoundTail(_, _, _)
LowerBoundTail(keys, st, value) ==
    IF st.size > 0 THEN LowerBoundTail(keys, LowerBoundStep(keys, st, value), value)
    ELSE st

RECURSIVE LowerBoundUnrolled(_, _, _)
LowerBoundUnrolled(keys, st, value) ==
    IF st.size >= 8
    THEN LowerBoundUnrolled(keys,
            LowerBoundStep(keys,
                LowerBoundStep(keys, LowerBoundStep(keys, st, value), value), value),
            value)
    ELSE LowerBoundTail(keys, st, value)

\* Index::lower_bound(keys, size, value)
IndexLowerBound(keys, size, value) ==
    LowerBoundUnrolled(keys, [low |-> 0, size |-> size, oob |-> FALSE], value)

\* The iteration of find_first with the descent below an inner node advancing
\* the offset as the entry of a sub-index does: the step property below
\* tells the two apart.
FindFirstIterationInnerAdvance(cur, value, offset, key) ==
    LET lb  == IndexLowerBound(cur.keys, Len(cur.keys), key)
        pos == lb.low
    IN  IF lb.oob THEN [done |-> TRUE, result |-> Panic]
        ELSE IF pos = Len(cur.keys) THEN [done |-> TRUE, result |-> NoneResult]
        ELSE LET slot == cur.slots[pos + 1]
             IN  IF cur.inner
                 THEN [done |-> FALSE, cur |-> slot.node,
                       offset |-> offset + KEY_SIZE, key |-> key]
                 ELSE CASE slot.kind = "tagged" ->
                             [done |-> TRUE, result |-> SomeResult(slot.row)]
                        [] slot.kind = "bucket" ->
                             [done |-> TRUE, result |-> SomeResult(slot.rows[1])]
                        [] OTHER ->
                             LET k == create_key_with_offset(value, offset + KEY_SIZE)
                             IN  IF k = -1 THEN [done |-> TRUE, result |-> Panic]
                                 ELSE [done |-> FALSE, cur |-> slot.node,
                                       offset |-> offset + KEY_SIZE, key |-> k]

\* One iteration of the loop of Index::find_first on `cur` with key `key`.
\* The result is either a final outcome or the next (index, offset, key).
FindFirstIteration(cur, value, offset, key) ==
    LET lb  == IndexLowerBound(cur.keys, Len(cur.keys), key)
        pos == lb.low
    IN  IF lb.oob THEN [done |-> TRUE, result |-> Panic]
        ELSE IF pos = Len(cur.keys) THEN [done |-> TRUE, result |-> NoneResult]
        ELSE LET slot == cur.slots[pos + 1]
             IN  IF cur.inner
                 THEN [done |-> FALSE, cur |-> slot.node, offset |-> offset, key |-> key]
                 ELSE CASE slot.kind = "tagged" ->
                             [done |-> TRUE, result |-> SomeResult(slot.row)]
                        [] slot.kind = "bucket" ->
                             [done |-> TRUE, result |-> SomeResult(slot.rows[1])]
                        [] OTHER ->
                             LET k == create_key_with_offset(value, offset + KEY_SIZE)
                             IN  IF k = -1 THEN [done |-> TRUE, result |-> Panic]
                                 ELSE [done |-> FALSE, cur |-> slot.node,
                                       offset |-> offset + KEY_SIZE, key |-> k]

(***************************************************************************)
(* SpecIndex: actions                                                      *)
(***************************************************************************)
InitIndex ==
    /\ mode = "index"
    /\ idxColumn \in IndexColumns
    /\ idxRoot = BuildIndex(idxColumn)
    /\ fPc = "idle"
    /\ fProbe = <<>>
    /\ fValue = <<>>
    /\ fOffset = 0
    /\ fKey = 0
    /\ fCur = NoNode
    /\ fResult = NoneResult
    /\ TableIdle
    /\ LeafIdle
    /\ RowIdle
    /\ ExtIdle

\* find_first, up to the loop: coerce the probe, derive the first key.
FindFirstStart(probe) ==
    /\ mode = "index"
    /\ fPc = "idle"
    /\ fProbe' = probe
    /\ fValue' = probe
    /\ fOffset' = 0
    /\ fKey' = create_key(probe)
    /\ fCur' = idxRoot
    /\ fResult' = NoneResult
    /\ fPc' = "loop"
    /\ UNCHANGED <<idxColumn, idxRoot>>
    /\ IndexFrame

\* One iteration of the loop of find_first.
FindFirstLoop ==
    /\ mode = "index"
    /\ fPc = "loop"
    /\ LET it == FindFirstIteration(fCur, fValue, fOffset, fKey)
       IN  IF it.done
           THEN /\ fResult' = it.result
                /\ fPc' = "done"
                /\ UNCHANGED <<fCur, fOffset, fKey>>
           ELSE /\ fCur' = it.cur
                /\ fOffset' = it.offset
                /\ fKey' = it.key
                /\ fPc' = "loop"
                /\ UNCHANGED fResult
    /\ UNCHANGED <<idxColumn, idxRoot, fProbe, fValue>>
    /\ IndexFrame

\* The caller takes the result; the handle is ready for the next probe.
FindFirstReturn ==
    /\ mode = "index"
    /\ fPc = "done"
    /\ fPc' = "idle"
    /\ fProbe' = <<>>
    /\ fValue' = <<>>
    /\ fOffset' = 0
    /\ fKey' = 0
    /\ fCur' = NoNode
    /\ fResult' = NoneResult
    /\ UNCHANGED <<idxColumn, idxRoot>>
    /\ IndexFrame

NextIndex ==
    \/ \E probe \in IndexValues : FindFirstStart(probe)
    \/ FindFirstLoop
    \/ FindFirstReturn

SpecIndex == InitIndex /\ [][NextIndex]_vars

(***************************************************************************)
(* C1.  An indexed equality probe returns None for every probe value that  *)
(* does not occur in the indexed column; it never returns the row of a     *)
(* neighbouring key.                                                       *)
(***************************************************************************)
C1_AbsentProbeIsNone ==
    (fPc = "done" /\ fProbe \notin Range(idxColumn)) => fResult = NoneResult

(***************************************************************************)
(* C2.  Index soundness: probing with the non-empty value v of row r       *)
(* returns Some(r') where row r' holds v and r' is the first such row.     *)
(***************************************************************************)
C2_IndexSound ==
    (fPc = "done" /\ fProbe # <<>> /\ fProbe \in Range(idxColumn)) =>
        /\ fResult.kind = "some"
        /\ idxColumn[fResult.row + 1] = fProbe
        /\ \A r \in 1..Len(idxColumn) : idxColumn[r] = fProbe => fResult.row + 1 <= r

(***************************************************************************)
(* Values (value/mod.rs): the variant's name, then what it holds.          *)
(***************************************************************************)
VNone == <<"None">>
VInt(i) == <<"Int", i>>
VString(s) == <<"String", s>>

ValueVariant(value) == value[1]
ValueInner(value) == value[2]

\* Option<T>
OptNone == [some |-> FALSE]
OptSome(x) == [some |-> TRUE, val |-> x]

\* Vec::resize(new_len, fill): truncates or extends.
Resize(s, n, fill) == [i \in 1..n |-> IF i <= Len(s) THEN s[i] ELSE fill]

(***************************************************************************)
(* Values, errors and conversions (value/mod.rs, value/from.rs,            *)
(* value/into.rs, error.rs)                                                *)
(***************************************************************************)
VBool(b) == <<"Bool", b>>
VTable(rows) == <<"Table", rows>>
VTimestamp(ts) == <<"Timestamp", ts>>
VFloat(x) == <<"Float", x>>
VDouble(x) == <<"Double", x>>
VLink(l) == <<"Link", l>>
VLinkList(ls) == <<"LinkList", ls>>
VBackLink(b) == <<"BackLink", b>>

ARRAY_VALUE_KEY == "!ARRAY_VALUE"

\* From<Option<T>> for Value, where T converts to the variant `variant`.
ValueFromOption(opt, variant) ==
    IF opt.some THEN <<variant, opt.val>> ELSE VNone

\* Result<T, ValueError>
Ok(x) == [kind |-> "ok", val |-> x]

UnexpectedType(expected, found) ==
    [kind |-> "err", error |-> "UnexpectedType", expected |-> expected, found |-> found]

MissingField(field, target_type, remaining_fields) ==
    [kind |-> "err", error |-> "MissingField", field |-> field,
     target_type |-> target_type, remaining_fields |-> remaining_fields]

ExpectedTable(found) == [kind |-> "err", error |-> "ExpectedTable", found |-> found]

ExpectedArrayRow(field, found) ==
    [kind |-> "err", error |-> "ExpectedArrayRow", field |-> field, found |-> found]

VecConversionError(element_type, source) ==
    [kind |-> "err", error |-> "VecConversionError", element_type |-> element_type,
     source |-> source]

\* The instances of value_try_into!: the target type, whether it is the
\* Option arm, and the variant it matches.
ValueTarget(target, option, source) ==
    [target |-> target, option |-> option, source |-> source]

ValueTargets ==
    {ValueTarget("String", FALSE, "String"),
     ValueTarget("String", TRUE, "String"),
     ValueTarget("i64", FALSE, "Int"),
     ValueTarget("i64", TRUE, "Int"),
     ValueTarget("bool", FALSE, "Bool"),
     ValueTarget("f32", FALSE, "Float"),
     ValueTarget("f64", FALSE, "Double"),
     ValueTarget("DateTime<Utc>", FALSE, "Timestamp"),
     ValueTarget("DateTime<Utc>", TRUE, "Timestamp"),
     ValueTarget("Backlink", FALSE, "BackLink"),
     ValueTarget("Link", FALSE, "Link"),
     ValueTarget("Link", TRUE, "Link")}

\* A conversion whose Option arm has no case for Value::None.
value_try_into_no_none(tg, value) ==
    IF ValueVariant(value) = tg.source THEN Ok(IF tg.option THEN OptSome(ValueInner(value)) ELSE ValueInner(value))
    ELSE UnexpectedType(tg.target, value)

\* TryFrom<Value> for the target `tg` as value_try_into! generates it.
value_try_into(tg, value) ==
    IF tg.option
    THEN IF ValueVariant(value) = tg.source THEN Ok(OptSome(ValueInner(value)))
         ELSE IF ValueVariant(value) = "None" THEN Ok(OptNone)
         ELSE UnexpectedType(tg.target, value)
    ELSE IF ValueVariant(value) = tg.source THEN Ok(ValueInner(value))
         ELSE UnexpectedType(tg.target, value)

(***************************************************************************)
(* Row (table/row.rs): a map from column names to values, and the          *)
(* backlinks of the row                                                    *)
(***************************************************************************)
MapInsert(m, k, v) == [n \in DOMAIN m \cup {k} |-> IF n = k THEN v ELSE m[n]]

MapRemove(m, k) ==
    IF DOMAIN m \ {k} = {} THEN <<>> ELSE [n \in DOMAIN m \ {k} |-> m[n]]

\* Vec::remove(index) with a 1-based index
RemoveAt(s, i) == SubSeq(s, 1, i - 1) \o SubSeq(s, i + 1, Len(s))

Row(values, backlinks) == [values |-> values, backlinks |-> backlinks]

IsBackLink(v) == ValueVariant(v) = "BackLink"
NotBackLink(v) == ValueVariant(v) # "BackLink"

\* column_names.into_iter().enumerate().rev()
\*     .map(|(index, name)| (name, row.remove(index))).collect()
\* `index` is 1-based here; Vec::remove panics past the end of the vector.
RECURSIVE RemoveNamed(_, _, _, _)
RemoveNamed(row, column_names, index, values) ==
    IF index = 0 THEN Ok(values)
    ELSE IF index > Len(row) THEN Panic
    ELSE RemoveNamed(RemoveAt(row, index), column_names, index - 1,
                     MapInsert(values, column_names[index], row[index]))

\* Row::new: the BackLink values are extracted, then the names are paired
\* with what is left, by position.
Row_new(row, column_names) ==
    LET extracted == SelectSeq(row, IsBackLink)
        backlinks == [i \in 1..Len(extracted) |-> ValueInner(extracted[i])]
        rest == SelectSeq(row, NotBackLink)
        values == RemoveNamed(rest, column_names, Len(column_names), <<>>)
    IN  IF values = Panic THEN Panic ELSE Row(values.val, backlinks)

\* Row::has_field
has_field(row, key) == key \in DOMAIN row.values

\* Row::take without the removal.
Row_peek(row, column_name) ==
    IF has_field(row, column_name)
    THEN [value |-> OptSome(row.values[column_name]), row |-> row]
    ELSE [value |-> OptNone, row |-> row]

\* Row::take: the value, and the row without it.
Row_take(row, column_name) ==
    IF has_field(row, column_name)
    THEN [value |-> OptSome(row.values[column_name]),
          row |-> Row(MapRemove(row.values, column_name), row.backlinks)]
    ELSE [value |-> OptNone, row |-> row]

\* Row::take_backlinks
take_backlinks(row) == row.backlinks

\* realm_model_field! for each listed field in turn: take, or MissingField;
\* then try_into, or its error.
RECURSIVE realm_model_fields(_, _, _, _)
realm_model_fields(struct, row, fields, taken) ==
    IF fields = <<>> THEN Ok([fields |-> taken, row |-> row])
    ELSE The({
           IF ~took.value.some
           THEN MissingField(Head(fields).alias, struct, row)
           ELSE The({
                  IF conv.kind = "err" THEN conv
                  ELSE realm_model_fields(struct, took.row, Tail(fields),
                                          Append(taken, conv.val)) :
                  conv \in {value_try_into(Head(fields).target, took.value.val)} }) :
           took \in {Row_take(row, Head(fields).alias)} })

\* TryFrom<Row> for the struct as realm_model! generates it.
realm_model(struct, fields, with_backlinks, row) ==
    The({ IF r.kind = "err" THEN r
          ELSE Ok([fields |-> r.val.fields,
                   backlinks |-> IF with_backlinks THEN take_backlinks(r.val.row)
                                 ELSE <<>>]) :
        r \in {realm_model_fields(struct, row, fields, <<>>)} })

\* TryFrom<Row> for a scalar target: the row of a subtable of scalars.
row_try_into(tg, row) ==
    The({ IF ~took.value.some THEN ExpectedArrayRow(ARRAY_VALUE_KEY, took.row)
          ELSE value_try_into(tg, took.value.val) :
        took \in {Row_take(row, ARRAY_VALUE_KEY)} })

\* TryFrom<Value> for Vec<T>: every row of a Table value converted in order.
RECURSIVE VecPush(_, _, _)
VecPush(tg, rows, result) ==
    IF rows = <<>> THEN Ok(result)
    ELSE The({ IF e.kind = "err" THEN VecConversionError(tg.target, e)
               ELSE VecPush(tg, Tail(rows), Append(result, e.val)) :
             e \in {row_try_into(tg, Head(rows))} })

VecTryFrom(tg, value) ==
    IF ValueVariant(value) = "Table" THEN VecPush(tg, ValueInner(value), <<>>)
    ELSE ExpectedTable(value)

(***************************************************************************)
(* Table: the file                                                         *)
(***************************************************************************)
TableRowsMax == 3    \* rows of the table

\* The table's header: an indexed string column and a plain integer column.
\* An indexed column takes two slots of the data array: its data, its index.
TableColumns ==
    << [name |-> "id", type |-> "String", indexed |-> TRUE,  data_array_index |-> 0],
       [name |-> "n",  type |-> "Int",    indexed |-> FALSE, data_array_index |-> 2] >>

TableNames == <<"t">>

TableIds == {<<97>>, <<98>>}
\* The integer column is constant, or counts the rows.
TableInts(n) == {[r \in 1..n |-> 0], [r \in 1..n |-> r - 1]}

TableFiles ==
    UNION {[ids : [1..n -> TableIds], ns : TableInts(n)] : n \in 1..TableRowsMax}

\* Names a caller may pass: the existing ones and one that does not exist.
ProbeTableNames == {"t", "u"}
ProbeColumnNames == {"id", "n", "zz"}
ProbeIds == TableIds \cup {<<99>>}

column_count == Len(TableColumns)

\* Table::row_count: the element count of the first column's leaf.
row_count(file) == Len(file[1])

\* Table::read_column_row: decode the cell of a column at a row.
read_column_row(file, column_index, row_index) ==
    LET data == file[TableColumns[column_index + 1].data_array_index + 1]
    IN  IF TableColumns[column_index + 1].type = "String"
        THEN VString(data[row_index + 1])
        ELSE VInt(data[row_index + 1])

(***************************************************************************)
(* Table: the caches                                                       *)
(***************************************************************************)
\* Table::ensure_column_loaded
ensure_column_loaded(file, cols, column_index, row_index) ==
    LET c == column_index + 1
        col0 == cols[c]
        col1 == IF Len(col0) <= row_index THEN Resize(col0, row_index + 1, OptNone)
                ELSE col0
        col2 == IF col1[row_index + 1].some THEN col1
                ELSE [col1 EXCEPT ![row_index + 1] =
                         OptSome(read_column_row(file, column_index, row_index))]
    IN  [cols EXCEPT ![c] = col2]

\* Table::ensure_columns_loaded: every column, in order.
RECURSIVE EnsureColumnsFrom(_, _, _, _)
EnsureColumnsFrom(file, cols, column_index, row_index) ==
    IF column_index >= column_count THEN cols
    ELSE EnsureColumnsFrom(file,
            ensure_column_loaded(file, cols, column_index, row_index),
            column_index + 1, row_index)

ensure_columns_loaded(file, cols, row_index) ==
    EnsureColumnsFrom(file, cols, 0, row_index)

\* The row assembled by ensure_row_loaded from the loaded columns.
RowFromLastLoaded(cols, index) ==
    [i \in 1..column_count |-> cols[i][Len(cols[i])].val]

RowFromColumns(cols, index) ==
    [i \in 1..column_count |-> cols[i][index + 1].val]

\* Table::ensure_row_loaded on the caches `st` = [cols, rows].
ensure_row_loaded(file, st, index) ==
    IF Len(st.rows) > index /\ st.rows[index + 1].some THEN st
    ELSE LET cols == ensure_columns_loaded(file, st.cols, index)
             row  == RowFromColumns(cols, index)
             rows == Resize(st.rows, index + 1, OptNone)
         IN  [cols |-> cols, rows |-> [rows EXCEPT ![index + 1] = OptSome(row)]]

\* Table::get_row: the caches after the call and the row returned.
get_row(file, st, index) ==
    LET st1 == ensure_row_loaded(file, st, index)
    IN  [st |-> st1, row |-> st1.rows[index + 1].val]

\* The loop of Table::get_rows: get_row(i) for i in from..row_count-1.
RECURSIVE GetRowsFrom(_, _, _)
GetRowsFrom(file, st, from) ==
    IF from >= row_count(file) THEN st
    ELSE GetRowsFrom(file, get_row(file, st, from).st, from + 1)

\* Table::get_rows
get_rows(file, st) ==
    LET st1 == IF \/ Len(st.rows) < row_count(file)
                  \/ \E i \in 1..Len(st.rows) : ~st.rows[i].some
               THEN GetRowsFrom(file, st, 0)
               ELSE st
    IN  [st |-> st1, rows |-> [i \in 1..Len(st1.rows) |-> st1.rows[i].val]]

\* Index::find_first as one call: the loop run to its outcome.
RECURSIVE FindFirstRun(_, _, _, _)
FindFirstRun(cur, value, offset, key) ==
    LET it == FindFirstIteration(cur, value, offset, key)
    IN  IF it.done THEN it.result
        ELSE FindFirstRun(it.cur, value, it.offset, it.key)

find_first(root, value) == FindFirstRun(root, value, 0, create_key(value))

FirstColumn(name) == 0

\* The position of the regular column called `name`, or -1.
FindColumn(name) ==
    IF \E c \in 1..column_count : TableColumns[c].name = name
    THEN (CHOOSE c \in 1..column_count :
             /\ TableColumns[c].name = name
             /\ \A d \in 1..(c - 1) : TableColumns[d].name # name) - 1
    ELSE -1

\* ColumnAttributes::is_indexed of the column at `column_index`.
IsIndexedColumn(column_index) == TableColumns[column_index + 1].indexed

\* Table::find_row_from_index: the caches, the loaded indexes and the outcome.
find_row_from_index(file, st, idx, name, value) ==
    LET column_index == FindColumn(name)
    IN  IF column_index = -1
        THEN [st |-> st, indexes |-> idx,
              ret |-> [kind |-> "err", err |-> "column not found"]]
        ELSE IF ~IsIndexedColumn(column_index)
        THEN [st |-> st, indexes |-> idx,
              ret |-> [kind |-> "err", err |-> "column not indexed"]]
        ELSE LET idx1 == idx \cup {column_index}
                 \* the index node sits in the slot after the column's data
                 found == find_first(
                              file[TableColumns[column_index + 1].data_array_index + 2],
                              value)
             IN  CASE found.kind = "panic" ->
                        [st |-> st, indexes |-> idx1, ret |-> [kind |-> "panic"]]
                   [] found.kind = "none" ->
                        [st |-> st, indexes |-> idx1, ret |-> [kind |-> "none"]]
                   [] OTHER ->
                        LET got == get_row(file, st, found.row)
                        IN  [st |-> got.st, indexes |-> idx1,
                             ret |-> [kind |-> "ok", index |-> found.row, row |-> got.row]]

(***************************************************************************)
(* SpecTable: actions                                                      *)
(***************************************************************************)
Caches == [cols |-> data_columns, rows |-> data_rows]

InitTable ==
    /\ mode = "table"
    /\ \E f \in TableFiles : tblFile = <<f.ids, BuildIndex(f.ids), f.ns>>
    /\ grpTables = [i \in 1..Len(TableNames) |-> FALSE]
    /\ data_columns = <<>>
    /\ data_rows = <<>>
    /\ indexes = {}
    /\ tRet = NoCall
    /\ firstRow = [i \in 1..row_count(tblFile) |-> OptNone]
    /\ IndexIdle
    /\ LeafIdle
    /\ RowIdle
    /\ ExtIdle

\* Group::get_table_by_name (with get_or_load_table and Table::build).
GetTableByName(name) ==
    /\ mode = "table"
    /\ IF \E i \in 1..Len(TableNames) : TableNames[i] = name
       THEN LET i == CHOOSE j \in 1..Len(TableNames) : TableNames[j] = name
            IN  /\ tRet' = [op |-> "get_table_by_name", kind |-> "ok", name |-> name]
                /\ grpTables' = [grpTables EXCEPT ![i] = TRUE]
                /\ IF grpTables[i]
                   THEN UNCHANGED <<data_columns, data_rows, indexes>>
                   ELSE /\ data_columns' = [c \in 1..column_count |-> <<>>]
                        /\ data_rows' = <<>>
                        /\ indexes' = {}
       ELSE /\ tRet' = [op |-> "get_table_by_name", kind |-> "err",
                        err |-> "table not found", name |-> name]
            /\ UNCHANGED <<grpTables, data_columns, data_rows, indexes>>
    /\ UNCHANGED <<tblFile, firstRow>>
    /\ TableFrame

\* Table::get_row(index) on the loaded table, index below the row count.
GetRow(index) ==
    /\ mode = "table"
    /\ grpTables[1]
    /\ LET got == get_row(tblFile, Caches, index)
       IN  /\ data_columns' = got.st.cols
           /\ data_rows' = got.st.rows
           /\ tRet' = [op |-> "get_row", kind |-> "ok", index |-> index, row |-> got.row,
                       \* was this row returned before, and was it rebuilt now
                       again |-> firstRow[index + 1].some,
                       rebuilt |-> ~(Len(data_rows) > index /\ data_rows[index + 1].some)]
           /\ firstRow' = IF firstRow[index + 1].some THEN firstRow
                          ELSE [firstRow EXCEPT ![index + 1] = OptSome(got.row)]
    /\ UNCHANGED <<tblFile, grpTables, indexes>>
    /\ TableFrame

\* Table::get_rows
GetRows ==
    /\ mode = "table"
    /\ grpTables[1]
    /\ LET got == get_rows(tblFile, Caches)
       IN  /\ data_columns' = got.st.cols
           /\ data_rows' = got.st.rows
           /\ tRet' = [op |-> "get_rows", kind |-> "ok", rows |-> got.rows]
    /\ UNCHANGED <<tblFile, grpTables, indexes, firstRow>>
    /\ TableFrame

\* Table::find_row_from_index(indexed_column_name, value)
FindRowFromIndex(name, value) ==
    /\ mode = "table"
    /\ grpTables[1]
    /\ LET out == find_row_from_index(tblFile, Caches, indexes, name, value)
       IN  /\ data_columns' = out.st.cols
           /\ data_rows' = out.st.rows
           /\ indexes' = out.indexes
           /\ tRet' = [op |-> "find_row_from_index", name |-> name] @@ out.ret
    /\ UNCHANGED <<tblFile, grpTables, firstRow>>
    /\ TableFrame

NextTable ==
    \/ \E name \in ProbeTableNames : GetTableByName(name)
    \/ \E index \in 0..(row_count(tblFile) - 1) : GetRow(index)
    \/ GetRows
    \/ \E name \in ProbeColumnNames, value \in ProbeIds :
          \* the value plays no part when the probe fails on the column
          /\ FindColumn(name) = 0 \/ value = <<97>>
          /\ FindRowFromIndex(name, value)

SpecTable == InitTable /\ [][NextTable]_vars

(***************************************************************************)
(* C3.  get_row is idempotent: whatever get_row, get_rows and indexed      *)
(* probes came before, get_row(n) returns a row equal to the one the first *)
(* get_row(n) returned.                                                    *)
(***************************************************************************)
C3_GetRowIdempotent ==
    (tRet.op = "get_row" /\ tRet.kind = "ok") =>
        tRet.row = firstRow[tRet.index + 1].val

\* get_row(n) returned a second time, after the cached row had been dropped
\* by the truncation in ensure_row_loaded and an indexed probe had run.
C3_Witness ==
    /\ tRet.op = "get_row"
    /\ tRet.kind = "ok"
    /\ tRet.again
    /\ tRet.rebuilt
    /\ indexes # {}

(***************************************************************************)
(* C9.  Logical errors are error values and change nothing: an unknown     *)
(* table name yields table-not-found, an unknown column name yields        *)
(* column-not-found, a column without index yields column-not-indexed      *)
(* (not a panic); a call that ends in such an error leaves the group's     *)
(* tables, the row and column caches and the loaded indexes as they were.  *)
(***************************************************************************)
C9_ErrorKinds ==
    /\ (tRet.op = "get_table_by_name" /\ tRet.name \notin Range(TableNames)) =>
           (tRet.kind = "err" /\ tRet.err = "table not found")
    /\ (tRet.op = "find_row_from_index"
          /\ \A c \in 1..column_count : TableColumns[c].name # tRet.name) =>
           (tRet.kind = "err" /\ tRet.err = "column not found")
    /\ (tRet.op = "find_row_from_index"
          /\ \E c \in 1..column_count :
                TableColumns[c].name = tRet.name /\ ~TableColumns[c].indexed) =>
           (tRet.kind = "err" /\ tRet.err = "column not indexed")

C9_LogicalErrors ==
    /\ []C9_ErrorKinds
    /\ [][tRet'.kind = "err" => UNCHANGED tblState]_vars

\* A probe on the column without index fails while rows are cached.
C9_Witness ==
    /\ tRet.op = "find_row_from_index"
    /\ tRet.kind = "err"
    /\ tRet.err = "column not indexed"
    /\ Len(data_rows) > 1
    /\ indexes # {}

(***************************************************************************)
(* Nodes: header, payload and the bit-packed element reader                *)
(*                                                                         *)
(* A node is [inner, width, size, payload]; the payload is the sequence of *)
(* bytes after the 8-byte header, exactly payload_len bytes long.  A u64   *)
(* result of -1 stands for a panic (a failed assert, or a slice index      *)
(* past the end of the payload).                                           *)
(***************************************************************************)
Pow2(n) ==
    CASE n = 0 -> 1 [] n = 1 -> 2 [] n = 2 -> 4 [] n = 3 -> 8 [] n = 4 -> 16
      [] n = 5 -> 32 [] n = 6 -> 64 [] n = 7 -> 128 [] n = 8 -> 256
      [] n = 16 -> 65536 [] n = 24 -> 16777216

AllZero(bytes) == \A i \in 1..Len(bytes) : bytes[i] = 0

\* LittleEndian::read_u16 / read_u32 / read_u64
RECURSIVE LittleEndian(_)
LittleEndian(bytes) ==
    IF AllZero(bytes) THEN 0
    ELSE bytes[1] + 256 * LittleEndian(Tail(bytes))

\* payload[offset], or -1 when offset is past the end of the slice
ByteAt(payload, offset) ==
    IF offset < Len(payload) THEN payload[offset + 1] ELSE -1

\* payload[offset..offset + n] read little-endian, or -1 when the range is
\* not inside the slice
WordAt(payload, offset, n) ==
    IF offset + n <= Len(payload)
    THEN LittleEndian(SubSeq(payload, offset + 1, offset + n))
    ELSE -1

\* utils::read_array_value
read_array_value(payload, width, index) ==
    CASE width = 0 -> 0
      [] width = 1 ->
            LET b == ByteAt(payload, index \div 8)
            IN  IF b = -1 THEN -1 ELSE (b \div Pow2(index % 8)) % 2
      [] width = 2 ->
            LET b == ByteAt(payload, index \div 4)
            IN  IF b = -1 THEN -1 ELSE (b \div Pow2((index % 4) * 2)) % 4
      [] width = 4 ->
            LET b == ByteAt(payload, index \div 2)
            IN  IF b = -1 THEN -1 ELSE (b \div Pow2((index % 2) * 4)) % 16
      [] width = 8 -> ByteAt(payload, index)
      [] width = 16 -> WordAt(payload, index * 2, 2)
      [] width = 32 -> WordAt(payload, index * 4, 4)
      [] width = 64 -> WordAt(payload, index * 8, 8)
      [] OTHER -> -1

\* NodeHeader::payload_len (width scheme 0: bit-packed elements)
payload_len(size, width) == (size * width + 7) \div 8

\* The payload the file format holds for the elements `elems` at `width`:
\* element i occupies bits i*width .. (i+1)*width-1, least significant
\* first; unused bits of the last byte are zero.
RECURSIVE ToBytes(_, _)
ToBytes(v, n) == IF n = 0 THEN <<>> ELSE <<v % 256>> \o ToBytes(v \div 256, n - 1)

RECURSIVE PackBits(_, _, _, _)
PackBits(elems, width, byte_index, k) ==
    \* the contribution to byte `byte_index` of its k-th and later elements
    LET per == 8 \div width
        i == byte_index * per + k
    IN  IF k >= per \/ i >= Len(elems) THEN 0
        ELSE elems[i + 1] * Pow2(k * width) + PackBits(elems, width, byte_index, k + 1)

RECURSIVE PackWords(_, _)
PackWords(elems, n) ==
    IF elems = <<>> THEN <<>>
    ELSE ToBytes(Head(elems), n) \o PackWords(Tail(elems), n)

PackPayload(elems, width) ==
    IF width = 0 THEN <<>>
    ELSE IF width < 8
    THEN [b \in 1..payload_len(Len(elems), width) |-> PackBits(elems, width, b - 1, 0)]
    ELSE PackWords(elems, width \div 8)

MakeNode(elems, width) ==
    [inner |-> FALSE, width |-> width, size |-> Len(elems),
     payload |-> PackPayload(elems, width)]

\* Array<T>::get (array/mod.rs): the element reader without a bounds assertion.
ArrayGetUnchecked(node, index) == read_array_value(node.payload, node.width, index)

\* A reader that takes the byte at `index` whatever the element width.
ArrayGetByte(node, index) == ByteAt(node.payload, index)

\* ArrayBasic::get: the bounds assertion, then the element reader.
ArrayGet(node, index) ==
    IF index < node.size THEN read_array_value(node.payload, node.width, index)
    ELSE -1

(***************************************************************************)
(* Column leaves: the leaf object's get and the direct decode get_direct   *)
(***************************************************************************)
RVal(v) == [kind |-> "ok", val |-> v]

\* RefOrTaggedValue::from_raw
from_raw(value) ==
    IF value % 2 = 0 THEN [tag |-> "Ref", ref |-> value]
    ELSE [tag |-> "TaggedValue", value |-> value \div 2]

\* ArrayBasic::get_ref_or_tagged_value: -1 (panic), None, or Some(from_raw).
get_ref_or_tagged_value(node, index) ==
    LET value == ArrayGet(node, index)
    IN  IF value = -1 THEN Panic
        ELSE IF value = 0 THEN RVal(OptNone)
        ELSE RVal(OptSome(from_raw(value)))

\* ArrayBasic::get_ref: None for 0, a panic for a value that is no ref.
get_ref(node, index) ==
    LET value == ArrayGet(node, index)
    IN  IF value = -1 THEN Panic
        ELSE IF value = 0 THEN RVal(OptNone)
        ELSE IF value % 8 # 0 THEN Panic
        ELSE RVal(OptSome(value))

\* IntegerArray::get_integers of the node at `ref`: every element in order.
get_integers(heap, ref) ==
    [i \in 1..heap[ref].size |-> ArrayGet(heap[ref], i - 1)]

\* Link::new / Backlink::new with the column's context
Link(row) == [target_table_number |-> 1, row_number |-> row]
Backlink(rows) ==
    [origin_table_number |-> 1, origin_column_number |-> 0, row_numbers |-> rows]

\* LinkListLeaf::get_from_sub_array
LinkListFromSubArray(heap, ref) ==
    LET xs == get_integers(heap, ref) IN [i \in 1..Len(xs) |-> Link(xs[i])]

\* BacklinkArray::get_from_ref_or_tagged_value
BacklinkFrom(heap, rt) ==
    IF rt.tag = "Ref" THEN Backlink(get_integers(heap, rt.ref))
    ELSE Backlink(<<rt.value>>)

\* The rows of the subtable whose data array is at `ref` (one Int cell each).
SubtableRowsAt(heap, ref) ==
    LET xs == get_integers(heap, ref)
    IN  [i \in 1..Len(xs) |-> Row_new(<<VInt(xs[i])>>, <<ARRAY_VALUE_KEY>>)]

LeafKinds ==
    {"int", "int_opt", "bool", "bool_opt", "scalar_bool", "scalar_bool_opt",
     "link", "linklist", "backlink", "subtable"}

NullableKinds == {"int_opt", "bool_opt", "scalar_bool_opt"}

\* i64::from_le_bytes(value.to_le_bytes()): the same 64 bits read as signed.
\* The payloads of the model hold values below 2^31, whose top bit is clear.
AsI64(value) == value

\* Nullable leaves: slot 0 is the null sentinel, element i is slot i + 1.
OptionalFrom(value, null_value, some) ==
    IF value = -1 \/ null_value = -1 THEN Panic
    ELSE IF value = null_value THEN RVal(OptNone)
    ELSE RVal(OptSome(some))

\* IntegerArrayLeaf (column/integer.rs)
IntegerArrayLeaf_get(node, index) ==
    LET value == ArrayGet(node, index)
    IN  IF value = -1 THEN Panic ELSE RVal(AsI64(value))

IntegerArrayLeaf_get_direct(node, index) ==
    LET value == read_array_value(node.payload, node.width, index)
    IN  IF value = -1 THEN Panic ELSE RVal(AsI64(value))

\* OptionalIntegerArrayLeaf (column/integer_optional.rs)
OptionalIntegerArrayLeaf_get(node, index) ==
    LET value == ArrayGet(node, index + 1)
    IN  OptionalFrom(value, ArrayGet(node, 0), AsI64(value))

OptionalIntegerArrayLeaf_get_direct(node, index) ==
    LET value == read_array_value(node.payload, node.width, index + 1)
        null_value == read_array_value(node.payload, node.width, 0)
    IN  OptionalFrom(value, null_value, AsI64(value))

\* BoolArrayLeaf (column/bool.rs)
BoolArrayLeaf_get(node, index) ==
    LET value == ArrayGet(node, index)
    IN  IF value = -1 THEN Panic ELSE RVal(value # 0)

BoolArrayLeaf_get_direct(node, index) ==
    LET value == read_array_value(node.payload, node.width, index)
    IN  IF value = -1 THEN Panic ELSE RVal(value # 0)

\* OptionalBoolArrayLeaf (column/bool_optional.rs)
OptionalBoolArrayLeaf_get(node, index) ==
    LET value == ArrayGet(node, index + 1)
    IN  OptionalFrom(value, ArrayGet(node, 0), value = 1)

OptionalBoolArrayLeaf_get_direct(node, index) ==
    LET value == read_array_value(node.payload, node.width, index + 1)
        null_value == read_array_value(node.payload, node.width, 0)
    IN  OptionalFrom(value, null_value, value = 1)

\* ArrayLike<bool> for ScalarArray (array/scalar_array.rs): get reads the
\* payload without a bounds assertion.
ScalarArray_get(node, index) ==
    LET value == ArrayGetUnchecked(node, index)
    IN  IF value = -1 THEN Panic ELSE RVal(value # 0)

ScalarArray_get_direct(node, index) ==
    LET value == read_array_value(node.payload, node.width, index)
    IN  IF value = -1 THEN Panic ELSE RVal(value # 0)

\* ArrayLike<Option<bool>> for ScalarArray
ScalarArrayOptional_get(node, index) ==
    LET value == ArrayGetUnchecked(node, index + 1)
    IN  OptionalFrom(value, ArrayGetUnchecked(node, 0), value # 0)

ScalarArrayOptional_get_direct(node, index) ==
    LET value == read_array_value(node.payload, node.width, index + 1)
        null_value == read_array_value(node.payload, node.width, 0)
    IN  OptionalFrom(value, null_value, value # 0)

\* LinkLeaf (column/link.rs)
LinkLeaf_get(node, index) ==
    LET value == ArrayGet(node, index)
    IN  IF value = -1 THEN Panic
        ELSE IF value = 0 THEN RVal(OptNone)
        ELSE RVal(OptSome(Link(value - 1)))

LinkLeaf_get_direct(node, index) ==
    LET value == read_array_value(node.payload, node.width, index)
    IN  IF value = -1 THEN Panic
        ELSE IF value = 0 THEN RVal(OptNone)
        ELSE RVal(OptSome(Link(value - 1)))

\* LinkListLeaf (column/linklist.rs)
LinkListLeaf_get(heap, node, index) ==
    LET rt == get_ref_or_tagged_value(node, index)
    IN  IF rt = Panic THEN Panic
        ELSE IF rt.val.some /\ rt.val.val.tag = "Ref"
        THEN RVal(LinkListFromSubArray(heap, rt.val.val.ref))
        ELSE RVal(<<>>)

LinkListLeaf_get_direct(heap, node, index) ==
    LET n == read_array_value(node.payload, node.width, index)
    IN  IF n = -1 THEN Panic
        ELSE IF n = 0 THEN RVal(<<>>)
        ELSE IF from_raw(n).tag = "Ref"
        THEN RVal(LinkListFromSubArray(heap, from_raw(n).ref))
        ELSE RVal(<<>>)

\* BacklinkArray (column/backlink.rs)
BacklinkArray_get(heap, node, index) ==
    LET rt == get_ref_or_tagged_value(node, index)
    IN  IF rt = Panic THEN Panic
        ELSE IF ~rt.val.some THEN RVal(OptNone)
        ELSE RVal(OptSome(BacklinkFrom(heap, rt.val.val)))

BacklinkArray_get_direct(heap, node, index) ==
    LET n == read_array_value(node.payload, node.width, index)
    IN  IF n = -1 THEN Panic
        ELSE IF n = 0 THEN RVal(OptNone)
        ELSE RVal(OptSome(BacklinkFrom(heap, from_raw(n))))

\* SubtableArrayLeaf (column/subtable.rs): a slot of 0 is Ok(None).
SubtableArrayLeaf_get(heap, node, index) ==
    LET r == get_ref(node, index)
    IN  IF r = Panic THEN Panic
        ELSE IF ~r.val.some THEN RVal(OptNone)
        ELSE RVal(OptSome(SubtableRowsAt(heap, r.val.val)))

SubtableArrayLeaf_get_direct(heap, node, index) ==
    LET n == read_array_value(node.payload, node.width, index)
    IN  IF n = -1 THEN Panic
        ELSE IF n = 0 THEN RVal(OptNone)
        ELSE IF from_raw(n).tag = "Ref"
        THEN RVal(OptSome(SubtableRowsAt(heap, from_raw(n).ref)))
        ELSE RVal(OptNone)

\* T::LeafType::get of the leaf object of kind `kind` over `node`.
LeafGet(kind, heap, node, index) ==
    CASE kind = "int" -> IntegerArrayLeaf_get(node, index)
      [] kind = "int_opt" -> OptionalIntegerArrayLeaf_get(node, index)
      [] kind = "bool" -> BoolArrayLeaf_get(node, index)
      [] kind = "bool_opt" -> OptionalBoolArrayLeaf_get(node, index)
      [] kind = "scalar_bool" -> ScalarArray_get(node, index)
      [] kind = "scalar_bool_opt" -> ScalarArrayOptional_get(node, index)
      [] kind = "link" -> LinkLeaf_get(node, index)
      [] kind = "linklist" -> LinkListLeaf_get(heap, node, index)
      [] kind = "backlink" -> BacklinkArray_get(heap, node, index)
      [] kind = "subtable" -> SubtableArrayLeaf_get(heap, node, index)

\* T::LeafType::get_direct(realm, ref_, index, context) on the node at ref_.
LeafGetDirect(kind, heap, node, index) ==
    CASE kind = "int" -> IntegerArrayLeaf_get_direct(node, index)
      [] kind = "int_opt" -> OptionalIntegerArrayLeaf_get_direct(node, index)
      [] kind = "bool" -> BoolArrayLeaf_get_direct(node, index)
      [] kind = "bool_opt" -> OptionalBoolArrayLeaf_get_direct(node, index)
      [] kind = "scalar_bool" -> ScalarArray_get_direct(node, index)
      [] kind = "scalar_bool_opt" -> ScalarArrayOptional_get_direct(node, index)
      [] kind = "link" -> LinkLeaf_get_direct(node, index)
      [] kind = "linklist" -> LinkListLeaf_get_direct(heap, node, index)
      [] kind = "backlink" -> BacklinkArray_get_direct(heap, node, index)
      [] kind = "subtable" -> SubtableArrayLeaf_get_direct(heap, node, index)

\* ArrayLike::size of the leaf object: the node's size (for a nullable leaf
\* this counts the sentinel slot).
LeafSize(node) == node.size

\* The number of cells of a leaf of kind `kind`.
LeafCells(kind, node) ==
    IF kind \in NullableKinds THEN node.size - 1 ELSE node.size

(***************************************************************************)
(* The B+Tree walker (utils.rs) and BpTree::get (column/bptree.rs)         *)
(***************************************************************************)
\* a halving step with the comparisons of lower_bound and upper_bound swapped
BoundStepSwapped(data, width, st, value, upper) ==
    The({ [low |-> IF (IF upper THEN v < value ELSE value >= v)
                   THEN st.low + (st.size - st.size \div 2) ELSE st.low,
           size |-> st.size \div 2,
           bad |-> st.bad \/ v = -1] :
          v \in {read_array_value(data, width, st.low + st.size \div 2)} })

\* One halving step of utils::lower_bound (upper = FALSE) or
\* utils::upper_bound (upper = TRUE); `bad` records a read that panicked.
BoundStep(data, width, st, value, upper) ==
    LET half == st.size \div 2
        other_half == st.size - half
        probe == st.low + half
        other_low == st.low + other_half
        v == read_array_value(data, width, probe)
        up == IF upper THEN value >= v ELSE v < value
    IN  [low |-> IF up THEN other_low ELSE st.low,
         size |-> half,
         bad |-> st.bad \/ v = -1]

RECURSIVE BoundTail(_, _, _, _, _)
BoundTail(data, width, st, value, upper) ==
    IF st.size > 0
    THEN The({BoundTail(data, width, next, value, upper) :
                next \in {BoundStep(data, width, st, value, upper)}})
    ELSE st

RECURSIVE BoundUnrolled(_, _, _, _, _)
BoundUnrolled(data, width, st, value, upper) ==
    IF st.size >= 8
    THEN The({BoundUnrolled(data, width, z, value, upper) :
                z \in {BoundStep(data, width, y, value, upper) :
                    y \in {BoundStep(data, width, x, value, upper) :
                        x \in {BoundStep(data, width, st, value, upper)}}}})
    ELSE BoundTail(data, width, st, value, upper)

\* utils::lower_bound and utils::upper_bound: the position, or -1 for a panic.
lower_bound(data, width, size, value) ==
    LET st == BoundUnrolled(data, width, [low |-> 0, size |-> size, bad |-> FALSE],
                            value, FALSE)
    IN  IF st.bad THEN -1 ELSE st.low

\* the search for the first element >= value where upper_bound should run
StrictBound(data, width, size, value) == lower_bound(data, width, size, value)

\* utils::upper_bound: the position, or -1 for a panic.
upper_bound(data, width, size, value) ==
    LET st == BoundUnrolled(data, width, [low |-> 0, size |-> size, bad |-> FALSE],
                            value, TRUE)
    IN  IF st.bad THEN -1 ELSE st.low

NoChild == [bad |-> TRUE, child |-> 0, index |-> 0]

\* utils::find_child_from_offsets
find_child_from_offsets(heap, offsets_ref, elem_ndx) ==
    IF offsets_ref \notin DOMAIN heap THEN NoChild
    ELSE The({
           The({ IF child_index = -1 \/ elem_ndx_offset = -1 \/ elem_ndx < elem_ndx_offset
                 THEN NoChild
                 ELSE [bad |-> FALSE, child |-> child_index,
                       index |-> elem_ndx - elem_ndx_offset] :
               elem_ndx_offset \in
                 {IF child_index <= 0 THEN 0
                  ELSE read_array_value(heap[offsets_ref].payload,
                                        heap[offsets_ref].width, child_index - 1)} }) :
           child_index \in
             {upper_bound(heap[offsets_ref].payload, heap[offsets_ref].width,
                          heap[offsets_ref].size, elem_ndx)} })

\* utils::find_bptree_child: compact form (odd first value) or offsets array.
find_bptree_child(heap, first_value, index) ==
    IF first_value % 2 # 0
    THEN LET elems_per_child == first_value \div 2
         IN  IF elems_per_child = 0 THEN NoChild
             ELSE [bad |-> FALSE, child |-> index \div elems_per_child,
                   index |-> index % elems_per_child]
    ELSE IF first_value % 8 # 0 THEN NoChild
    ELSE find_child_from_offsets(heap, first_value, index)

\* utils::find_bptree_child_in_payload: the child's ref and the index in it.
\* first_value, then (child_index, index_in_child), then child_ref.
find_bptree_child_in_payload(heap, payload, width, index) ==
    The({
      The({
        The({ IF found.bad \/ child_ref = -1 \/ child_ref % 8 # 0 THEN NoChild
              ELSE [bad |-> FALSE, child |-> child_ref, index |-> found.index] :
            child_ref \in {IF found.bad THEN -1
                           ELSE read_array_value(payload, width, 1 + found.child)} }) :
        found \in {IF first_value = -1 THEN NoChild
                   ELSE find_bptree_child(heap, first_value, index)} }) :
      first_value \in {read_array_value(payload, width, 0)} })

\* BpTreeNode::get_bptree_leaf: descend from the inner node `node`.
RECURSIVE get_bptree_leaf(_, _, _)
get_bptree_leaf(heap, node, index) ==
    The({ IF found.bad \/ found.child \notin DOMAIN heap THEN NoChild
          ELSE IF ~heap[found.child].inner THEN found
          ELSE get_bptree_leaf(heap, heap[found.child], found.index) :
        found \in {find_bptree_child_in_payload(heap, node.payload, node.width, index)} })

\* BpTree::get on the column whose root is at `root_ref`.
BpTreeGet(kind, heap, root_ref, index) ==
    IF ~heap[root_ref].inner THEN LeafGet(kind, heap, heap[root_ref], index)
    ELSE The({ IF found.bad THEN Panic
               ELSE LeafGetDirect(kind, heap, heap[found.child], found.index) :
             found \in {get_bptree_leaf(heap, heap[root_ref], index)} })

(***************************************************************************)
(* SpecLeaf: the file                                                      *)
(***************************************************************************)
LeafSizeMax == 3     \* cells of the column

ElementWidths == {0, 1, 2, 4, 8, 16, 32, 64}

\* Two integer lists that link list, backlink and subtable slots refer to.
ListNodes == (8 :> MakeNode(<<>>, 0)) @@ (16 :> MakeNode(<<2, 0>>, 2))

\* Slot values a leaf of each width may hold.
WidthValues(width) ==
    CASE width = 0 -> {0}
      [] width = 1 -> {0, 1}
      [] width = 2 -> {0, 1, 3}
      [] width = 4 -> {0, 3, 8}
      [] width = 8 -> {0, 3, 16}
      [] width = 16 -> {0, 8, 258}
      [] width = 32 -> {1, 16, 16909060}
      [] width = 64 -> {0, 3, 16909060}

\* A slot of a link list or backlink leaf is 0, a tagged value or a ref to a
\* list; a slot of a subtable leaf is 0 or a ref.
WellFormedSlot(kind, v) ==
    CASE kind \in {"linklist", "backlink"} -> v = 0 \/ v % 2 = 1 \/ v \in DOMAIN ListNodes
      [] kind = "subtable" -> v = 0 \/ v \in DOMAIN ListNodes
      [] OTHER -> TRUE

SlotValues(kind, width) == {v \in WidthValues(width) : WellFormedSlot(kind, v)}

\* The slots of a leaf holding `cells`: a nullable leaf starts with the
\* null sentinel.
LeafSlots(kind, null_value, cells) ==
    IF kind \in NullableKinds THEN <<null_value>> \o cells ELSE cells

LeafRefOf(k) == 8 * (k + 3)

\* The column as one root leaf (at ref 24) and as an inner root in compact
\* form (at ref 32) over leaves of `epc` cells each (from ref 40 on).
ColumnNodes(kind, width, null_value, cells, epc) ==
    LET total == Len(cells)
        children == (total + epc - 1) \div epc
        chunk(c) == SubSeq(cells, (c - 1) * epc + 1, Min2(c * epc, total))
        child_ref(c) == LeafRefOf(c + 1)
        inner == [MakeNode(<<1 + 2 * epc>> \o [c \in 1..children |-> child_ref(c)]
                              \o <<1 + 2 * total>>, 16)
                  EXCEPT !.inner = TRUE]
    IN  [r \in {LeafRefOf(0), LeafRefOf(1)} \cup {child_ref(c) : c \in 1..children} |->
            IF r = LeafRefOf(0) THEN MakeNode(LeafSlots(kind, null_value, cells), width)
            ELSE IF r = LeafRefOf(1) THEN inner
            ELSE LET c == CHOOSE d \in 1..children : child_ref(d) = r
                 IN  MakeNode(LeafSlots(kind, null_value, chunk(c)), width)]
        @@ ListNodes

\* The number of cells of the column at `root_ref`.
ColumnCells(kind, heap, root_ref) == LeafCells(kind, heap[root_ref])

(***************************************************************************)
(* SpecLeaf: actions                                                       *)
(***************************************************************************)
InitLeaf ==
    /\ mode = "leaf"
    /\ leafKind \in LeafKinds
    /\ \E width \in ElementWidths, n \in 0..LeafSizeMax, epc \in 1..2 :
         \E cells \in [1..n -> SlotValues(leafKind, width)],
            null_value \in SlotValues(leafKind, width) :
               \* only a nullable leaf has a sentinel to choose
               /\ leafKind \in NullableKinds \/ null_value = 0
               /\ fileNodes = ColumnNodes(leafKind, width, null_value, cells, epc)
    /\ leafRef = LeafRefOf(0)
    /\ treeRef = LeafRefOf(1)
    /\ lRet = NoCall
    /\ IndexIdle
    /\ TableIdle
    /\ RowIdle
    /\ ExtIdle

\* The cell `index` of the root leaf read through the leaf object (get) and
\* through the direct decode (get_direct).
LeafRead(index) ==
    /\ mode = "leaf"
    /\ lRet' = [op |-> "leaf", kind |-> "ok", index |-> index,
                object |-> LeafGet(leafKind, fileNodes, fileNodes[leafRef], index),
                direct |-> LeafGetDirect(leafKind, fileNodes, fileNodes[leafRef], index)]
    /\ UNCHANGED <<leafKind, fileNodes, leafRef, treeRef>>
    /\ LeafFrame

\* BpTree::get(index) on the column stored as a root leaf and on the same
\* column stored under an inner root.
TreeGet(index) ==
    /\ mode = "leaf"
    /\ lRet' = [op |-> "tree", kind |-> "ok", index |-> index,
                object |-> BpTreeGet(leafKind, fileNodes, leafRef, index),
                direct |-> BpTreeGet(leafKind, fileNodes, treeRef, index)]
    /\ UNCHANGED <<leafKind, fileNodes, leafRef, treeRef>>
    /\ LeafFrame

NextLeaf ==
    \/ \E index \in 0..(LeafSizeMax + 1) : LeafRead(index)
    \/ \E index \in 0..(LeafSizeMax + 1) : TreeGet(index)

SpecLeaf == InitLeaf /\ [][NextLeaf]_vars
(***************************************************************************)
(* SpecLeaf: claims                                                        *)
(***************************************************************************)
InRangeCall == lRet.op \in {"leaf", "tree"} /\ lRet.index < ColumnCells(leafKind, fileNodes, leafRef)

C10_OutOfRangePanics ==
    (lRet.op = "leaf" /\ lRet.index >= LeafSize(fileNodes[leafRef]))
        => (lRet.object = Panic /\ lRet.direct = Panic)
(***************************************************************************)
(* SpecRow: the rows and models under test                                 *)
(***************************************************************************)
RowColumnsMax == 3   \* columns of the table row

\* A cell of a named column and a cell of a backlink column; a null cell of
\* either is Value::None (From<Option<T>>).
NamedValues == {VInt(7), VString(<<97>>), VNone}
BacklinkValues ==
    {ValueFromOption(OptSome(Backlink(<<5>>)), "BackLink"), ValueFromOption(OptNone, "BackLink")}

ColumnNames == <<"a", "b", "c", "d">>

\* The rows of a table of n columns: each column is named or a backlink
\* column; the k-th named column is called ColumnNames[k].
RowCellsOf(n) ==
    {[i \in 1..n |->
        [named |-> named[i],
         name |-> IF named[i] THEN ColumnNames[Cardinality({j \in 1..i : named[j]})]
                  ELSE "",
         value |-> value[i]]] :
     named \in [1..n -> BOOLEAN], value \in [1..n -> NamedValues \cup BacklinkValues]}

WellTypedCells(cells) ==
    \A i \in 1..Len(cells) :
        cells[i].value \in (IF cells[i].named THEN NamedValues ELSE BacklinkValues)

RowCells == {cells \in UNION {RowCellsOf(n) : n \in 1..RowColumnsMax} : WellTypedCells(cells)}

NamedCells(cells) == {i \in 1..Len(cells) : cells[i].named}

RECURSIVE NamesFrom(_, _)
NamesFrom(cells, i) ==
    IF i > Len(cells) THEN <<>>
    ELSE (IF cells[i].named THEN <<cells[i].name>> ELSE <<>>) \o NamesFrom(cells, i + 1)

\* The fields a model may list: a column name (alias) and a target type.
ModelField(alias, tg) == [alias |-> alias, target |-> tg]

ModelFields ==
    {ModelField("a", ValueTarget("i64", FALSE, "Int")),
     ModelField("a", ValueTarget("i64", TRUE, "Int")),
     ModelField("b", ValueTarget("String", FALSE, "String")),
     ModelField("b", ValueTarget("i64", TRUE, "Int")),
     ModelField("c", ValueTarget("i64", FALSE, "Int"))}

\* Field lists of one or two fields under distinct column names.
ModelFieldLists ==
    {<<f>> : f \in ModelFields}
        \cup {p \in ModelFields \X ModelFields : p[1].alias # p[2].alias}

\* Values handed to the conversions.
ModelValues ==
    {VNone, VInt(7), VBool(TRUE), VString(<<97>>), VFloat(15), VDouble(25),
     VTimestamp(1000), VLink(Link(2)), VLinkList(<<Link(2)>>),
     VBackLink(Backlink(<<5>>)), VTable(<<>>)}

\* A subtable leaf with a slot of 0, a ref to an empty data array and a ref
\* to a data array of two rows.
SubtableLeafRef == 24
SubtableNodes == ListNodes @@ (SubtableLeafRef :> MakeNode(<<0, 8, 16>>, 8))

\* ColumnImpl::get for the subtable column: Value::from(self.tree.get(index)?)
SubtableColumnGet(index) ==
    The({ IF r = Panic THEN Panic ELSE Ok(ValueFromOption(r.val, "Table")) :
        r \in {BpTreeGet("subtable", SubtableNodes, SubtableLeafRef, index)} })

(***************************************************************************)
(* SpecRow: actions                                                        *)
(***************************************************************************)
InitRow ==
    /\ mode = "row"
    /\ rowCells \in RowCells
    /\ rowObj = NoRow
    /\ vRet = NoCall
    /\ IndexIdle
    /\ TableIdle
    /\ LeafIdle
    /\ ExtIdle

\* Row::new over the row's values in column order and the names of its
\* named columns.
RowNew ==
    /\ mode = "row"
    /\ rowObj = NoRow
    /\ rowObj' = Row_new([i \in 1..Len(rowCells) |-> rowCells[i].value],
                         NamesFrom(rowCells, 1))
    /\ vRet' = [op |-> "new", kind |-> "ok"]
    /\ UNCHANGED rowCells
    /\ RowFrame

\* Model::try_from(row) for a model declared with realm_model!; the row is
\* consumed.
ModelTryFrom(fields, with_backlinks) ==
    /\ mode = "row"
    /\ rowObj \notin {NoRow, Panic}
    /\ vRet' = [op |-> "model", kind |-> "ok", fields |-> fields,
                with_backlinks |-> with_backlinks, row |-> rowObj,
                result |-> realm_model("MyModel", fields, with_backlinks, rowObj)]
    /\ rowObj' = NoRow
    /\ UNCHANGED rowCells
    /\ RowFrame

NextRow ==
    \/ RowNew
    \/ \E fields \in ModelFieldLists, with_backlinks \in BOOLEAN :
          ModelTryFrom(fields, with_backlinks)

SpecRow == InitRow /\ [][NextRow]_vars

(***************************************************************************)
(* SpecValue: the conversions from Value                                   *)
(***************************************************************************)
InitValue ==
    /\ mode = "value"
    /\ RowIdle
    /\ IndexIdle
    /\ TableIdle
    /\ LeafIdle
    /\ ExtIdle

\* T::try_from(value) for an instance of value_try_into!.
ValueTryInto(tg, value) ==
    /\ mode = "value"
    /\ vRet' = [op |-> "try_into", kind |-> "ok", target |-> tg, input |-> value,
                result |-> value_try_into(tg, value)]
    /\ UNCHANGED <<rowCells, rowObj>>
    /\ RowFrame

\* A cell of the subtable column read as a Value and converted to Vec<i64>.
SubtableToVec(index) ==
    /\ mode = "value"
    /\ \E cell \in {SubtableColumnGet(index)} :
         vRet' = [op |-> "vec", kind |-> "ok", index |-> index, cell |-> cell,
                  result |-> IF cell = Panic THEN Panic
                             ELSE VecTryFrom(ValueTarget("i64", FALSE, "Int"), cell.val)]
    /\ UNCHANGED <<rowCells, rowObj>>
    /\ RowFrame

NextValue ==
    \/ \E tg \in ValueTargets, value \in ModelValues : ValueTryInto(tg, value)
    \/ \E index \in 0..2 : SubtableToVec(index)

SpecValue == InitValue /\ [][NextValue]_vars

(***************************************************************************)
(* SpecRow and SpecValue: claims                                           *)
(***************************************************************************)
\* C5: a Row built from the row's values and the names of its named columns
\* maps every named column's name to the value of that same column, and
\* holds the backlink columns' values only in the backlink list, wherever
\* the backlink columns sit and whether or not a backlink cell is null.
C5_RowProjection ==
    rowObj # NoRow =>
        /\ rowObj # Panic
        /\ \A i \in NamedCells(rowCells) :
              /\ has_field(rowObj, rowCells[i].name)
              /\ rowObj.values[rowCells[i].name] = rowCells[i].value
        /\ \A i \in 1..Len(rowCells) :
              (~rowCells[i].named /\ rowCells[i].value # VNone)
                  => \E k \in 1..Len(rowObj.backlinks) :
                        VBackLink(rowObj.backlinks[k]) = rowCells[i].value

\* What the model conversion is expected to do with the call in vRet.
FieldPresent(f, row) == f.alias \in DOMAIN row.values

FieldConverts(f, row) ==
    FieldPresent(f, row) /\ value_try_into(f.target, row.values[f.alias]).kind = "ok"

AbsentFields(fields, row) == {k \in 1..Len(fields) : ~FieldPresent(fields[k], row)}

FirstAbsent(fields, row) ==
    CHOOSE k \in AbsentFields(fields, row) : \A j \in AbsentFields(fields, row) : k <= j

RowMinus(row, names) ==
    Row(IF DOMAIN row.values \ names = {} THEN <<>>
        ELSE [n \in DOMAIN row.values \ names |-> row.values[n]],
        row.backlinks)

MissingFirstAbsent(fields, row) ==
    LET k == FirstAbsent(fields, row)
    IN  MissingField(fields[k].alias, "MyModel",
                     RowMinus(row, {fields[j].alias : j \in 1..(k - 1)}))

ModelSucceedsExactly(fields, row, result) ==
    /\ result.kind = "ok" <=> \A k \in 1..Len(fields) : FieldConverts(fields[k], row)
    /\ result.kind = "ok" =>
          \A k \in 1..Len(fields) :
              Ok(result.val.fields[k]) = value_try_into(fields[k].target,
                                                        row.values[fields[k].alias])

C7_SubtableToVec ==
    vRet.op = "vec" =>
        LET slot == ArrayGet(SubtableNodes[SubtableLeafRef], vRet.index)
            elements == IF slot = 0 THEN <<>> ELSE get_integers(SubtableNodes, slot)
        IN  vRet.result = Ok(elements)

\* The variant that converts to each target type.
MatchingVariant(target) ==
    CASE target = "String" -> "String"
      [] target = "i64" -> "Int"
      [] target = "bool" -> "Bool"
      [] target = "f32" -> "Float"
      [] target = "f64" -> "Double"
      [] target = "DateTime<Utc>" -> "Timestamp"
      [] target = "Backlink" -> "BackLink"
      [] target = "Link" -> "Link"

\* C8: for a target Option<T>, Value::None converts to Ok(None) and the
\* matching variant to Ok(Some(v)); for a target T only the matching variant
\* converts; every other input, Value::None for a target T included, gives
\* UnexpectedType with the input unchanged in `found`.
C8_TryFromValue ==
    vRet.op = "try_into" =>
        IF ValueVariant(vRet.input) = MatchingVariant(vRet.target.target)
        THEN vRet.result = Ok(IF vRet.target.option THEN OptSome(ValueInner(vRet.input))
                              ELSE ValueInner(vRet.input))
        ELSE IF vRet.target.option /\ vRet.input = VNone
        THEN vRet.result = Ok(OptNone)
        ELSE /\ vRet.result.kind = "err"
             /\ vRet.result.error = "UnexpectedType"
             /\ vRet.result.found = vRet.input

\* Value::None has been converted to Option<i64>.
C8_Witness ==
    /\ vRet.op = "try_into"
    /\ vRet.target = ValueTarget("i64", TRUE, "Int")
    /\ vRet.input = VNone
    /\ vRet.result = Ok(OptNone)

(***************************************************************************)
(* SpecFile: the mapped file, Realm::open and the node headers             *)
(*                                                                         *)
(* A ref is a byte offset into the file.  An outcome is Ok(x), an error    *)
(* value Err(reason) (anyhow::Error, `bail!`) or Panic.                    *)
(***************************************************************************)
Err(reason) == [kind |-> "err", reason |-> reason]

Header_SIZE == 24

Header_MAGIC == <<84, 45, 68, 66>>     \* b"T-DB"

NodeHeader_SIZE == 8

DUMMY_CHECKSUM == 1094795585           \* 0x4141_4141

\* Header::parse
Header_parse(buf) ==
    IF Len(buf) < Header_SIZE THEN Err("file too small for Realm header")
    ELSE The({ IF h.magic # Header_MAGIC
               THEN Err("not a Realm file (magic mismatch)")
               ELSE Ok(h) :
               h \in {[top_ref |-> <<LittleEndian(SubSeq(buf, 1, 8)),
                                     LittleEndian(SubSeq(buf, 9, 16))>>,
                       magic |-> SubSeq(buf, 17, 20),
                       fmt_ver |-> SubSeq(buf, 21, 22),
                       flags |-> buf[24]]} })

\* Header::current_top_ref
current_top_ref(hdr) == hdr.top_ref[(hdr.flags % 2) + 1]

\* Header::is_encrypted
is_encrypted(hdr) == (hdr.flags \div 128) % 2 # 0

\* Realm::open once the file is mapped: `&mmap[..Header::SIZE]` is a slice
\* index and panics on a mapping shorter than the header.
Realm_open(bytes) ==
    IF Len(bytes) < Header_SIZE THEN Panic
    ELSE The({ IF parsed.kind = "ok" THEN Ok([hdr |-> parsed.val]) ELSE parsed :
               parsed \in {Header_parse(SubSeq(bytes, 1, Header_SIZE))} })

\* Realm::slice
Realm_slice(bytes, o, len) ==
    IF o + len > Len(bytes) THEN Panic
    ELSE Ok(SubSeq(bytes, o + 1, o + len))

\* NodeHeader::parse
NodeHeader_parse(buf) ==
    IF Len(buf) < NodeHeader_SIZE THEN Err("node too small")
    ELSE IF LittleEndian(SubSeq(buf, 1, 4)) # DUMMY_CHECKSUM THEN Panic
    ELSE Ok([checksum |-> LittleEndian(SubSeq(buf, 1, 4)),
             flags |-> buf[5],
             size |-> buf[6] * 65536 + buf[7] * 256 + buf[8]])

\* NodeHeader::width_scheme
width_scheme(header) == (header.flags \div 8) % 4

\* NodeHeader::width
header_width(header) == Pow2(header.flags % 8) \div 2

\* the payload length rounded up to a multiple of 8
NodeHeader_payload_len_aligned(header) ==
    CASE width_scheme(header) = 0 ->
            (((header.size * header_width(header) + 7) \div 8 + 7) \div 8) * 8
      [] width_scheme(header) = 1 -> ((header.size * header_width(header) + 7) \div 8) * 8
      [] width_scheme(header) = 2 -> ((header.size + 7) \div 8) * 8
      [] OTHER -> -1

\* NodeHeader::payload_len, all width schemes; -1 is `unreachable!`
NodeHeader_payload_len(header) ==
    CASE width_scheme(header) = 0 -> (header.size * header_width(header) + 7) \div 8
      [] width_scheme(header) = 1 -> header.size * header_width(header)
      [] width_scheme(header) = 2 -> header.size
      [] OTHER -> -1

\* Realm::header
Realm_header(bytes, ref) ==
    The({ IF s.kind = "ok" THEN NodeHeader_parse(s.val) ELSE s :
          s \in {Realm_slice(bytes, ref, NodeHeader_SIZE)} })

\* Realm::payload
Realm_payload(bytes, ref, len) == Realm_slice(bytes, ref + NodeHeader_SIZE, len)

\* RealmNode::from_ref
RealmNode_from_ref(bytes, ref) ==
    The({ IF header.kind # "ok" THEN header
          ELSE IF NodeHeader_payload_len(header.val) = -1 THEN Panic
          ELSE Ok([ref_ |-> ref, header |-> header.val,
                   cached_payload_len |-> NodeHeader_payload_len(header.val)]) :
          header \in {Realm_header(bytes, ref)} })

(***************************************************************************)
(* The files of SpecFile, byte by byte: the 24-byte file header, a node at *)
(* ref 24 and a node at ref 40, cut at some length.                        *)
(***************************************************************************)
Zeros(n) == [i \in 1..n |-> 0]

FileHeaderBytes(top_ref, magic, flags) ==
    <<top_ref[1]>> \o Zeros(7) \o <<top_ref[2]>> \o Zeros(7) \o magic
        \o <<9, 9, 0, flags>>

NodeBytes(checksum, flags, size, payload) ==
    checksum \o <<flags, 0, 0, size>> \o payload \o Zeros(8 - Len(payload))

FileMagics == {Header_MAGIC, <<84, 45, 68, 67>>}

FileFlags == {0, 1, 128, 129}

NodeChecksums == {<<65, 65, 65, 65>>, <<65, 65, 65, 64>>}

\* node flags: width scheme 0..3 at width 8 or 16, has-refs set or not
NodeFlags == {scheme * 8 + ndx + refs : scheme \in 0..3, ndx \in {4, 5}, refs \in {0, 64}}

NodeSizes == {1, 3, 6}

FileLens == {16, 23, 24, 28, 32, 36, 40, 48, 56}

FileImages ==
    { SubSeq(FileHeaderBytes(<<24, 40>>, magic, flags)
                 \o NodeBytes(checksum, nflags, size, <<1, 2, 3>>)
                 \o NodeBytes(<<65, 65, 65, 65>>, 4, 2, <<7, 8>>),
             1, len) :
        magic \in FileMagics, flags \in FileFlags, checksum \in NodeChecksums,
        nflags \in NodeFlags, size \in NodeSizes, len \in FileLens }

FileRefs == {24, 40, 48}

(***************************************************************************)
(* SpecFile: actions                                                       *)
(***************************************************************************)
InitFile ==
    /\ mode = "file"
    /\ mmap \in FileImages
    /\ realm = NoRealm
    /\ rnode = NoRealm
    /\ fileRet = NoCall
    /\ IndexIdle
    /\ TableIdle
    /\ LeafIdle
    /\ RowIdle
    /\ ConcIdle
    /\ OptIdle
    /\ FnIdle

\* Realm::open(path)
RealmOpen ==
    /\ mode = "file"
    /\ realm = NoRealm
    /\ \E r \in {Realm_open(mmap)} :
         /\ fileRet' = [op |-> "open", kind |-> r.kind, result |-> r]
         /\ realm' = IF r.kind = "ok" THEN r.val ELSE NoRealm
    /\ UNCHANGED <<mmap, rnode>>
    /\ FileFrame

\* Realm::top_ref
RealmTopRef ==
    /\ mode = "file"
    /\ realm # NoRealm
    /\ fileRet' = [op |-> "top_ref", kind |-> "ok",
                   result |-> Ok(current_top_ref(realm.hdr))]
    /\ UNCHANGED <<mmap, realm, rnode>>
    /\ FileFrame

\* RealmNode::from_ref(realm, ref)
RealmNodeFromRef(ref) ==
    /\ mode = "file"
    /\ realm # NoRealm
    /\ \E r \in {RealmNode_from_ref(mmap, ref)} :
         /\ fileRet' = [op |-> "from_ref", kind |-> r.kind, ref |-> ref, result |-> r]
         /\ rnode' = IF r.kind = "ok" THEN r.val ELSE NoRealm
    /\ UNCHANGED <<mmap, realm>>
    /\ FileFrame

\* RealmNode::payload
RealmNodePayload ==
    /\ mode = "file"
    /\ rnode # NoRealm
    /\ \E r \in {Realm_payload(mmap, rnode.ref_, rnode.cached_payload_len)} :
         fileRet' = [op |-> "payload", kind |-> r.kind, ref |-> rnode.ref_, result |-> r]
    /\ UNCHANGED <<mmap, realm, rnode>>
    /\ FileFrame

NextFile ==
    \/ RealmOpen
    \/ RealmTopRef
    \/ \E ref \in FileRefs : RealmNodeFromRef(ref)
    \/ RealmNodePayload

SpecFile == InitFile /\ [][NextFile]_vars

(***************************************************************************)
(* SpecFile: claims                                                        *)
(***************************************************************************)
\* the node at `ref` of the file is malformed: its header does not lie in
\* the file, its checksum is not the sentinel, or its width scheme is 3
MalformedNode(bytes, ref) ==
    \/ ref + NodeHeader_SIZE > Len(bytes)
    \/ /\ ref + NodeHeader_SIZE <= Len(bytes)
       /\ \/ SubSeq(bytes, ref + 1, ref + 4) # <<65, 65, 65, 65>>
          \/ (bytes[ref + 5] \div 8) % 4 = 3

\* C11: malformed data met while reading a node is reported as an error
\* value: a node whose header lies past the end of the file, whose checksum
\* is not 0x41414141 or whose width scheme is 3 makes from_ref return an
\* error, and a payload range past the end of the file makes payload return
\* an error; neither aborts.
C11_MalformedIsFileError ==
    /\ (fileRet.op = "from_ref" /\ MalformedNode(mmap, fileRet.ref))
          => fileRet.kind = "err"
    /\ (fileRet.op = "payload"
           /\ rnode.ref_ + NodeHeader_SIZE + rnode.cached_payload_len > Len(mmap))
          => fileRet.kind = "err"

\* C12: Realm::open returns an error and no handle for a file shorter than
\* the 24-byte header and for a file whose bytes 16..20 are not "T-DB"; for
\* any other file it returns a handle whose active top-reference is the
\* top_ref selected by bit 0 of the flags byte.
C12_OpenRejectsOrSelects ==
    fileRet.op = "open" =>
        IF Len(mmap) < 24 \/ SubSeq(mmap, 17, 20) # <<84, 45, 68, 66>>
        THEN fileRet.kind = "err" /\ realm = NoRealm
        ELSE /\ fileRet.kind = "ok"
             /\ realm # NoRealm
             /\ current_top_ref(realm.hdr) =
                    IF mmap[24] % 2 = 0 THEN LittleEndian(SubSeq(mmap, 1, 8))
                    ELSE LittleEndian(SubSeq(mmap, 9, 16))

\* C13: a file whose header flags byte has bit 7 set is never opened: open
\* returns an error and no handle exists through which a node could be read.
C13_EncryptedFailsAtOpen ==
    (Len(mmap) >= 24 /\ (mmap[24] \div 128) % 2 = 1) =>
        /\ realm = NoRealm
        /\ fileRet.op = "open" => fileRet.kind = "err"

(***************************************************************************)
(* SpecShared: callers reading concurrently through Table handles that     *)
(* share one file mapping                                                  *)
(*                                                                         *)
(* Table is Clone: a clone has its own data_columns, data_rows and indexes *)
(* and shares the mapping through Arc<Realm>.  The methods that fill the   *)
(* caches take &mut self, so each caller works on a handle of its own.  A  *)
(* call advances in steps (one column cell loaded, one row stored), and    *)
(* the steps of different callers interleave freely.                       *)
(***************************************************************************)
NumCallers == 2

SharedRowsMax == 2

Callers == 1..NumCallers

\* the files of SpecTable whose integer column counts the rows
SharedFiles ==
    {f \in TableFiles : Len(f.ids) <= SharedRowsMax /\ \A r \in 1..Len(f.ns) : f.ns[r] = r - 1}

\* indexed probes: a value present or absent, a column not indexed or unknown
SharedProbes == {<<"id", <<97>>>>, <<"id", <<99>>>>, <<"n", <<97>>>>, <<"zz", <<97>>>>}

\* every caller reading through one and the same handle
OneHandle(c) == 1

\* the handle a caller reads through: its own clone of the Table
HandleOf(c) == c

\* Table::build: the caches of a new handle
FreshCaches == [cols |-> [c \in 1..column_count |-> <<>>], rows |-> <<>>]

FreshHandle == FreshCaches @@ [indexes |-> {}]

IdleCall == [pc |-> "idle", op |-> "none", arg |-> <<>>, todo |-> <<>>, col |-> 0,
             during |-> FALSE, ret |-> NoCall]

CachesOf(h) == [cols |-> h.cols, rows |-> h.rows]

\* the rows a call has to make sure are loaded, decided when it starts
RowsToLoad(file, h, op, arg) ==
    CASE op = "get_row" -> <<arg[1]>>
      [] op = "get_rows" ->
            IF \/ Len(h.rows) < row_count(file)
               \/ \E i \in 1..Len(h.rows) : ~h.rows[i].some
            THEN [i \in 1..row_count(file) |-> i - 1]
            ELSE <<>>
      [] OTHER -> <<>>

\* what the call returns when it runs alone on a handle of its own
SerialResult(file, call) ==
    CASE call.op = "row_count" -> [kind |-> "ok", count |-> row_count(file)]
      [] call.op = "get_row" ->
            [kind |-> "ok", row |-> get_row(file, FreshCaches, call.arg[1]).row]
      [] call.op = "get_rows" ->
            [kind |-> "ok", rows |-> get_rows(file, FreshCaches).rows]
      [] call.op = "find" ->
            find_row_from_index(file, FreshCaches, {}, call.arg[1], call.arg[2]).ret

InitShared ==
    /\ mode = "shared"
    /\ \E f \in SharedFiles : shFile = <<f.ids, BuildIndex(f.ids), f.ns>>
    /\ handles = [c \in Callers |-> FreshHandle]
    /\ calls = [c \in Callers |-> IdleCall]
    /\ IndexIdle
    /\ TableIdle
    /\ LeafIdle
    /\ RowIdle
    /\ FileIdle
    /\ OptIdle
    /\ FnIdle

OthersRunning(c) == \E d \in Callers \ {c} : calls[d].pc = "run"

\* Table::row_count(&self): reads the file, touches no cache
RowCount(c) ==
    /\ mode = "shared"
    /\ calls[c].pc # "run"
    /\ calls' = [calls EXCEPT ![c] =
                    [IdleCall EXCEPT !.pc = "done", !.op = "row_count",
                                     !.during = OthersRunning(c),
                                     !.ret = [kind |-> "ok", count |-> row_count(shFile)]]]
    /\ UNCHANGED <<shFile, handles>>
    /\ ConcFrame

\* entry of Table::get_row(index) and of Table::get_rows()
StartRows(c, op, arg) ==
    /\ mode = "shared"
    /\ calls[c].pc # "run"
    /\ calls' = [calls EXCEPT ![c] =
                    [IdleCall EXCEPT !.pc = "run", !.op = op, !.arg = arg,
                                     !.during = OthersRunning(c),
                                     !.todo = RowsToLoad(shFile, handles[HandleOf(c)],
                                                         op, arg)]]
    /\ UNCHANGED <<shFile, handles>>
    /\ ConcFrame

\* Table::find_row_from_index up to the call of get_row: the column lookup,
\* the index loaded into this handle's `indexes`, and Index::find_first
StartFind(c, name, value) ==
    /\ mode = "shared"
    /\ calls[c].pc # "run"
    /\ \E column_index \in {FindColumn(name)} :
         IF column_index = -1 \/ ~IsIndexedColumn(column_index)
         THEN /\ calls' = [calls EXCEPT ![c] =
                    [IdleCall EXCEPT !.pc = "done", !.op = "find",
                        !.arg = <<name, value>>, !.during = OthersRunning(c),
                        !.ret = [kind |-> "err",
                                 err |-> IF column_index = -1 THEN "column not found"
                                         ELSE "column not indexed"]]]
              /\ UNCHANGED handles
         ELSE \E found \in {find_first(
                   shFile[TableColumns[column_index + 1].data_array_index + 2], value)} :
                /\ handles' = [handles EXCEPT ![HandleOf(c)].indexes = @ \cup {column_index}]
                /\ calls' = [calls EXCEPT ![c] =
                      IF found.kind = "some"
                      THEN [IdleCall EXCEPT !.pc = "run", !.op = "find",
                               !.arg = <<name, value>>, !.during = OthersRunning(c),
                               !.todo = <<found.row>>]
                      ELSE [IdleCall EXCEPT !.pc = "done", !.op = "find",
                               !.arg = <<name, value>>, !.during = OthersRunning(c),
                               !.ret = [kind |-> found.kind]]]
    /\ UNCHANGED shFile
    /\ ConcFrame

\* Table::ensure_row_loaded, early return: the row is in data_rows already
RowCached(c) ==
    /\ mode = "shared"
    /\ calls[c].pc = "run" /\ calls[c].todo # <<>> /\ calls[c].col = 0
    /\ \E h \in {handles[HandleOf(c)]}, index \in {Head(calls[c].todo)} :
         /\ Len(h.rows) > index /\ h.rows[index + 1].some
         /\ calls' = [calls EXCEPT ![c].todo = Tail(@)]
    /\ UNCHANGED <<shFile, handles>>
    /\ ConcFrame

\* one iteration of the loop of Table::ensure_columns_loaded
ColumnStep(c) ==
    /\ mode = "shared"
    /\ calls[c].pc = "run" /\ calls[c].todo # <<>> /\ calls[c].col < column_count
    /\ \E h \in {handles[HandleOf(c)]}, index \in {Head(calls[c].todo)} :
         /\ calls[c].col = 0 => ~(Len(h.rows) > index /\ h.rows[index + 1].some)
         /\ handles' = [handles EXCEPT ![HandleOf(c)].cols =
                           ensure_column_loaded(shFile, h.cols, calls[c].col, index)]
         /\ calls' = [calls EXCEPT ![c].col = @ + 1]
    /\ UNCHANGED shFile
    /\ ConcFrame

\* the rest of Table::ensure_row_loaded: the row assembled and stored
RowStore(c) ==
    /\ mode = "shared"
    /\ calls[c].pc = "run" /\ calls[c].todo # <<>> /\ calls[c].col = column_count
    /\ \E h \in {handles[HandleOf(c)]}, index \in {Head(calls[c].todo)} :
         /\ handles' = [handles EXCEPT ![HandleOf(c)].rows =
                           [Resize(h.rows, index + 1, OptNone) EXCEPT ![index + 1] =
                               OptSome(RowFromColumns(h.cols, index))]]
         /\ calls' = [calls EXCEPT ![c].todo = Tail(@), ![c].col = 0]
    /\ UNCHANGED shFile
    /\ ConcFrame

\* the value returned by get_row, get_rows and find_row_from_index
ReturnRows(c) ==
    /\ mode = "shared"
    /\ calls[c].pc = "run" /\ calls[c].todo = <<>>
    /\ \E h \in {handles[HandleOf(c)]} :
         calls' = [calls EXCEPT ![c].pc = "done", ![c].ret =
            CASE calls[c].op = "get_row" ->
                    [kind |-> "ok", row |-> h.rows[calls[c].arg[1] + 1].val]
              [] calls[c].op = "get_rows" ->
                    [kind |-> "ok", rows |-> [i \in 1..Len(h.rows) |-> h.rows[i].val]]
              [] calls[c].op = "find" ->
                    \* the row found was the last one loaded by this call
                    [kind |-> "ok",
                     index |-> find_first(shFile[2], calls[c].arg[2]).row,
                     row |-> h.rows[find_first(shFile[2], calls[c].arg[2]).row + 1].val]]
    /\ UNCHANGED <<shFile, handles>>
    /\ ConcFrame

NextShared ==
    \E c \in Callers :
        \/ RowCount(c)
        \/ \E index \in 0..(row_count(shFile) - 1) : StartRows(c, "get_row", <<index>>)
        \/ StartRows(c, "get_rows", <<>>)
        \/ \E probe \in SharedProbes : StartFind(c, probe[1], probe[2])
        \/ RowCached(c)
        \/ ColumnStep(c)
        \/ RowStore(c)
        \/ ReturnRows(c)

SpecShared == InitShared /\ [][NextShared]_vars

\* C14: whatever the interleaving of the callers' steps, no step writes the
\* shared file mapping, a caller's step leaves every other caller's handle
\* as it was, and every finished call returned what the same call returns
\* when it runs alone, one call after another.
C14_ConcurrentReadsSerial ==
    [][ /\ shFile' = shFile
        /\ \A d \in Callers : calls'[d] = calls[d] => handles'[d] = handles[d]
        /\ \A c \in Callers :
              calls'[c].pc = "done" => calls'[c].ret = SerialResult(shFile, calls'[c])
      ]_vars

\* Both callers have finished a call that loaded rows; the second caller's
\* call started while the first caller's call was in progress.
C14_Witness ==
    /\ mode = "shared"
    /\ calls[1].pc = "done" /\ calls[1].op = "get_rows" /\ ~calls[1].during
    /\ calls[2].pc = "done" /\ calls[2].op = "find" /\ calls[2].during
    /\ calls[2].ret.kind = "ok"

(***************************************************************************)
(* SpecOptInt: the nullable integer leaf at the byte widths                *)
(*                                                                         *)
(* A u64 read from the payload is kept as its eight little-endian bytes    *)
(* (u64::to_le_bytes), so that all 64 bits are represented.                *)
(***************************************************************************)
\* u64::to_le_bytes of a value below 2^16
ToLeBytes(value) == <<value % 256, value \div 256, 0, 0, 0, 0, 0, 0>>

\* utils::read_array_value, the u64 as its bytes: the element is widened
\* with zeros (`as u64`); <<>> stands for a panic
read_array_value_le(payload, width, index) ==
    CASE width \in {0, 1, 2, 4} ->
            The({ IF v = -1 THEN <<>> ELSE ToLeBytes(v) :
                  v \in {read_array_value(payload, width, index)} })
      [] width \in {8, 16, 32, 64} ->
            IF (index + 1) * (width \div 8) <= Len(payload)
            THEN SubSeq(payload, index * (width \div 8) + 1, (index + 1) * (width \div 8))
                    \o [i \in 1..(8 - width \div 8) |-> 0]
            ELSE <<>>
      [] OTHER -> <<>>

\* Array::get on the leaf's node: asserts index < size
ArrayGetLe(node, index) ==
    IF index < node.size THEN read_array_value_le(node.payload, node.width, index)
    ELSE <<>>

\* An i64 is kept as its sign and the eight little-endian bytes of its
\* magnitude, so that every 64-bit value is represented.
I64(v) == [neg |-> v < 0, mag |-> ToLeBytes(IF v < 0 THEN -v ELSE v)]

\* bytes + 1, wrapping
RECURSIVE Increment(_)
Increment(bytes) ==
    IF bytes = <<>> THEN <<>>
    ELSE IF Head(bytes) < 255 THEN <<Head(bytes) + 1>> \o Tail(bytes)
    ELSE <<0>> \o Increment(Tail(bytes))

\* i64::from_le_bytes: the eight bytes read as a two's complement number
i64_from_le_bytes(bytes) ==
    IF bytes[8] < 128 THEN [neg |-> FALSE, mag |-> bytes]
    ELSE [neg |-> TRUE, mag |-> Increment([i \in 1..8 |-> 255 - bytes[i]])]

\* ArrayLike<Option<i64>>::get for IntegerArray, which is also
\* ArrayLeaf::get for OptionalIntegerArrayLeaf
IntegerArray_get_optional(node, index) ==
    The({ IF p[1] = <<>> \/ p[2] = <<>> THEN Panic
          ELSE IF p[1] = p[2] THEN Ok(OptNone)
          ELSE Ok(OptSome(i64_from_le_bytes(p[1]))) :
          p \in {<<ArrayGetLe(node, index + 1), ArrayGetLe(node, 0)>>} })

\* ArrayLike<Option<i64>>::get_direct / OptionalIntegerArrayLeaf::get_direct
IntegerArray_get_direct_optional(node, index) ==
    The({ IF p[1] = <<>> \/ p[2] = <<>> THEN Panic
          ELSE IF p[1] = p[2] THEN Ok(OptNone)
          ELSE Ok(OptSome(i64_from_le_bytes(p[1]))) :
          p \in {<<read_array_value_le(node.payload, node.width, index + 1),
                   read_array_value_le(node.payload, node.width, 0)>>} })

\* ArrayLike<Option<i64>>::is_null / OptionalIntegerArrayLeaf::is_null
IntegerArray_is_null(node, index) ==
    The({ IF p[1] = <<>> \/ p[2] = <<>> THEN Panic ELSE Ok(p[1] = p[2]) :
          p \in {<<ArrayGetLe(node, index + 1), ArrayGetLe(node, 0)>>} })

(***************************************************************************)
(* The leaf as the file format stores it: signed elements of 8, 16, 32 or  *)
(* 64 bits in two's complement, little-endian; slot 0 holds a value that   *)
(* no row has, and a null row repeats it.                                  *)
(***************************************************************************)
OptRowsMax == 3

RECURSIVE SignedBytes(_, _)
SignedBytes(v, n) ==
    IF n = 0 THEN <<>> ELSE <<v % 256>> \o SignedBytes((v - (v % 256)) \div 256, n - 1)

RECURSIVE PackSigned(_, _)
PackSigned(elems, n) ==
    IF elems = <<>> THEN <<>>
    ELSE SignedBytes(Head(elems), n) \o PackSigned(Tail(elems), n)

OptInts == {0, -1, 1, 127, -128}

OptNulls == {-2, 5}

OptWidths == {8, 16, 32, 64}

OptCells == {OptNone} \cup {OptSome(v) : v \in OptInts}

OptColumns == UNION {[1..n -> OptCells] : n \in 1..OptRowsMax}

OptLeaf(rows, null_value, width) ==
    [inner |-> FALSE, width |-> width, size |-> Len(rows) + 1,
     payload |-> PackSigned(<<null_value>> \o
                    [i \in 1..Len(rows) |-> IF rows[i].some THEN rows[i].val
                                            ELSE null_value],
                    width \div 8)]

InitOptInt ==
    /\ mode = "optint"
    /\ optRows \in OptColumns
    /\ \E null_value \in OptNulls, width \in OptWidths :
          optNode = OptLeaf(optRows, null_value, width)
    /\ optRet = NoCall
    /\ IndexIdle
    /\ TableIdle
    /\ LeafIdle
    /\ RowIdle
    /\ FileIdle
    /\ ConcIdle
    /\ FnIdle

\* get(index) and is_null(index) on the leaf object
OptGet(index) ==
    /\ mode = "optint"
    /\ optRet' = [op |-> "get", kind |-> "ok", index |-> index,
                  result |-> IntegerArray_get_optional(optNode, index),
                  is_null |-> IntegerArray_is_null(optNode, index)]
    /\ UNCHANGED <<optRows, optNode>>
    /\ OptFrame

\* get_direct(realm, ref, index, ())
OptGetDirect(index) ==
    /\ mode = "optint"
    /\ optRet' = [op |-> "get_direct", kind |-> "ok", index |-> index,
                  result |-> IntegerArray_get_direct_optional(optNode, index),
                  is_null |-> IntegerArray_is_null(optNode, index)]
    /\ UNCHANGED <<optRows, optNode>>
    /\ OptFrame

NextOptInt ==
    \/ \E index \in 0..(Len(optRows) - 1) : OptGet(index)
    \/ \E index \in 0..(Len(optRows) - 1) : OptGetDirect(index)

SpecOptInt == InitOptInt /\ [][NextOptInt]_vars

\* C15: a nullable integer leaf reads back what was written, at every byte
\* width: a read of row i reports null exactly when the row was written as
\* null, and otherwise returns Int(v) for the signed v written, so rows
\* [Some(0), None, Some(-1)] read back Int(0), null, Int(-1).
C15_NullableIntRoundTrip ==
    optRet.op \in {"get", "get_direct"} =>
        /\ optRet.result.kind = "ok"
        /\ optRet.is_null = Ok(~optRows[optRet.index + 1].some)
        /\ ValueFromOption(optRet.result.val, "Int")
              = IF optRows[optRet.index + 1].some
                THEN VInt(I64(optRows[optRet.index + 1].val))
                ELSE VNone

(***************************************************************************)
(* SpecLeaf: the tri-state slots of link list and backlink leaves          *)
(***************************************************************************)
\* the raw slot of the cell that the last read of SpecLeaf addressed
SlotRead ==
    read_array_value(fileNodes[leafRef].payload, fileNodes[leafRef].width, lRet.index)

\* the elements of the integer leaf at `ref`, in element order
ListElements(ref) ==
    [i \in 1..fileNodes[ref].size |->
        read_array_value(fileNodes[ref].payload, fileNodes[ref].width, i - 1)]

\* C16: a link list cell decodes by the tri-state of its slot, the same
\* through get and get_direct: slot 0 is the empty list, an odd slot is the
\* one-element list [Link{target_table, slot >> 1}], and a ref is one Link
\* per element of the referenced integer leaf, in element order.
C16_LinkListTriState ==
    (leafKind = "linklist" /\ lRet.op = "leaf" /\ InRangeCall) =>
        \E expected \in {IF SlotRead = 0 THEN <<>>
                         ELSE IF SlotRead % 2 = 1 THEN <<Link(SlotRead \div 2)>>
                         ELSE [i \in 1..Len(ListElements(SlotRead)) |->
                                  Link(ListElements(SlotRead)[i])]} :
            /\ lRet.object = RVal(expected)
            /\ lRet.direct = RVal(expected)

\* C17: every Backlink produced by reading a backlink cell has a non-empty
\* row_numbers list: a slot of 0 produces no Backlink, a tagged slot produces
\* exactly one row number, and a ref slot never produces a Backlink with
\* zero row numbers.
C17_BacklinkNonEmpty ==
    (leafKind = "backlink" /\ InRangeCall) =>
        \A r \in {lRet.object, lRet.direct} :
            /\ r.kind = "ok"
            /\ SlotRead = 0 => ~r.val.some
            /\ SlotRead % 2 = 1 => (r.val.some /\ Len(r.val.val.row_numbers) = 1)
            /\ r.val.some => r.val.val.row_numbers # <<>>

(***************************************************************************)
(* SpecTree: B+Trees of depth one and two, inner nodes in compact or       *)
(* general form, and BpTreeNode::get_bptree_leaf                           *)
(*                                                                         *)
(* An inner node is <<form word, child refs ..., 1 + 2 * total>>.  The form *)
(* word is 1 + 2 * elements_per_child (compact form) or the ref of the     *)
(* offsets array, whose entry i is the element count up to and including   *)
(* child i (general form).  The node with number `base` sits at ref        *)
(* 8 * base, its offsets array at the next ref and its leaves after that.  *)
(***************************************************************************)
TreeKidsMax == 3     \* leaves under one inner node

TreeLeafMax == 2     \* elements of one leaf

RECURSIVE Sum(_)
Sum(s) == IF s = <<>> THEN 0 ELSE Head(s) + Sum(Tail(s))

Prefix(s, i) == Sum(SubSeq(s, 1, i))

\* compact form: every child holds as many elements as the first, except
\* the last, which may hold fewer
CompactOk(totals) ==
    /\ \A i \in 1..(Len(totals) - 1) : totals[i] = totals[1]
    /\ totals[Len(totals)] <= totals[1]

InnerNode(form, width, base, child_refs, totals) ==
    [MakeNode(<<IF form = "compact" THEN 1 + 2 * totals[1] ELSE 8 * (base + 1)>>
                  \o child_refs \o <<1 + 2 * Sum(totals)>>, width)
     EXCEPT !.inner = TRUE]

\* the offsets array of a general-form node: one entry per child but the
\* last, or (full) one per child
OffsetsNodes(form, base, totals, full) ==
    IF form = "compact" THEN <<>>
    ELSE 8 * (base + 1) :>
            MakeNode([i \in 1..(Len(totals) - (IF full THEN 0 ELSE 1)) |->
                         Prefix(totals, i)], 8)

\* an inner node over leaves; the leaves hold first, first + 1, ...
SubtreeNodes(t, base, first, full) ==
    (8 * base :> InnerNode(t.form, t.width, base,
                           [k \in 1..Len(t.sizes) |-> 8 * (base + 1 + k)], t.sizes))
    @@ OffsetsNodes(t.form, base, t.sizes, full)
    @@ [r \in {8 * (base + 1 + k) : k \in 1..Len(t.sizes)} |->
          MakeNode([e \in 1..t.sizes[r \div 8 - base - 1] |->
                       first + Prefix(t.sizes, r \div 8 - base - 2) + e - 1], 8)]

\* an inner root over inner nodes over leaves
DeepTreeNodes(form, width, subtrees, full) ==
    (8 :> InnerNode(form, width, 1,
                    [j \in 1..Len(subtrees) |-> 8 * (10 * j + 1)],
                    [j \in 1..Len(subtrees) |-> Sum(subtrees[j].sizes)]))
    @@ OffsetsNodes(form, 1, [j \in 1..Len(subtrees) |-> Sum(subtrees[j].sizes)], full)
    @@ SubtreeNodes(subtrees[1], 11, 10, full)
    @@ SubtreeNodes(subtrees[2], 21, 10 + Sum(subtrees[1].sizes), full)

TreeForms == {"compact", "general"}

InnerWidths == {16, 32}

TreeSizes == UNION {[1..n -> 1..TreeLeafMax] : n \in 2..TreeKidsMax}

Subtrees ==
    {t \in [form : TreeForms, width : InnerWidths, sizes : TreeSizes] :
        t.form = "compact" => CompactOk(t.sizes)}

\* trees of depth one, and trees of depth two (there the first inner node
\* is 16 bits wide and the offsets arrays have one entry per child but the
\* last)
TreeFiles ==
    {SubtreeNodes(t, 1, 10, full) : t \in Subtrees, full \in BOOLEAN}
    \cup {DeepTreeNodes(p[1], p[2], <<p[3], p[4]>>, FALSE) :
            p \in {q \in TreeForms \X InnerWidths \X Subtrees \X Subtrees :
                      /\ q[3].width = 16
                      /\ q[1] = "compact"
                            => CompactOk(<<Sum(q[3].sizes), Sum(q[4].sizes)>>)}}

\* BpTreeNode::get_bptree_size: the last slot of the root, halved
get_bptree_size(node) == ArrayGet(node, node.size - 1) \div 2

InitTree ==
    /\ mode = "tree"
    /\ leafKind = "int"
    /\ fileNodes \in TreeFiles
    /\ leafRef = 0
    /\ treeRef = 8
    /\ lRet = NoCall
    /\ IndexIdle
    /\ TableIdle
    /\ RowIdle
    /\ ExtIdle

\* BpTree::get(index) on the integer column rooted at treeRef, with the
\* leaf and index that get_bptree_leaf located on the way
TreeLocate(index) ==
    /\ mode = "tree"
    /\ lRet' = [op |-> "locate", kind |-> "ok", index |-> index,
                found |-> get_bptree_leaf(fileNodes, fileNodes[treeRef], index),
                value |-> BpTreeGet(leafKind, fileNodes, treeRef, index)]
    /\ UNCHANGED <<leafKind, fileNodes, leafRef, treeRef>>
    /\ LeafFrame

NextTree ==
    \/ \E index \in 0..(get_bptree_size(fileNodes[treeRef]) - 1) : TreeLocate(index)

SpecTree == InitTree /\ [][NextTree]_vars

\* the elements of the tree below `ref` as <<leaf ref, index in leaf>>, in
\* left-to-right leaf order
RECURSIVE LeafOrder(_, _)
RECURSIVE LeafOrderFrom(_, _, _)
LeafOrder(heap, ref) ==
    IF heap[ref].inner THEN LeafOrderFrom(heap, ref, 1)
    ELSE [k \in 1..heap[ref].size |-> <<ref, k - 1>>]

LeafOrderFrom(heap, ref, c) ==
    IF c > heap[ref].size - 2 THEN <<>>
    ELSE LeafOrder(heap, read_array_value(heap[ref].payload, heap[ref].width, c))
            \o LeafOrderFrom(heap, ref, c + 1)

\* C18: in a well-formed B+Tree of depth one or two, with each inner node in
\* compact or in general form and of its own width, get_bptree_leaf(index)
\* returns for every index below the element count the leaf and the index
\* in it of the index-th element in left-to-right leaf order, and get reads
\* that element.
C18_LeafLocated ==
    lRet.op = "locate" =>
        /\ ~lRet.found.bad
        /\ <<lRet.found.child, lRet.found.index>>
              = LeafOrder(fileNodes, treeRef)[lRet.index + 1]
        /\ lRet.value = RVal(10 + lRet.index)

\* A tree of depth two whose root is in general form and whose second inner
\* node is in compact form and of another width; the element located is the
\* first of that node's second leaf (a child boundary).
C18_Witness ==
    /\ lRet.op = "locate"
    /\ 168 \in DOMAIN fileNodes
    /\ fileNodes[168].inner
    /\ fileNodes[168].width # fileNodes[treeRef].width
    /\ read_array_value(fileNodes[treeRef].payload, fileNodes[treeRef].width, 0) % 2 = 0
    /\ read_array_value(fileNodes[168].payload, fileNodes[168].width, 0) % 2 = 1
    /\ lRet.found = [bad |-> FALSE, child |-> 192, index |-> 0]

(***************************************************************************)
(* SpecBound: lower_bound and upper_bound over a bit-packed sorted array   *)
(***************************************************************************)
BoundSizeMax == 9    \* elements of the sorted array; the unrolled loop runs from 8

BoundValues == {0, 1, 2}

BoundProbes == {0, 1, 2, 3}

\* 2 bits per element (four to a byte) and 8 bits per element, where the
\* payload ends with the last element
BoundWidths == {2, 8}

SortedArrays ==
    UNION {{a \in [1..n -> BoundValues] : \A i \in 1..(n - 1) : a[i] <= a[i + 1]} :
             n \in 0..BoundSizeMax}

InitBound ==
    /\ mode = "bound"
    /\ leafKind = "int"
    /\ \E a \in SortedArrays, width \in BoundWidths : fileNodes = (8 :> MakeNode(a, width))
    /\ leafRef = 8
    /\ treeRef = 0
    /\ lRet = NoCall
    /\ IndexIdle
    /\ TableIdle
    /\ RowIdle
    /\ ExtIdle

\* utils::lower_bound, utils::upper_bound and Index::lower_bound on the
\* array at leafRef, with the array's size and the probe `value`
Bounds(value) ==
    /\ mode = "bound"
    /\ \E node \in {fileNodes[leafRef]} :
         lRet' = [op |-> "bound", kind |-> "ok", value |-> value,
                  lower |-> lower_bound(node.payload, node.width, node.size, value),
                  upper |-> upper_bound(node.payload, node.width, node.size, value),
                  keys_lower |-> IndexLowerBound(ListElements(leafRef), node.size, value)]
    /\ UNCHANGED <<leafKind, fileNodes, leafRef, treeRef>>
    /\ LeafFrame

NextBound ==
    \/ \E value \in BoundProbes : Bounds(value)

SpecBound == InitBound /\ [][NextBound]_vars

\* the first position of `a` at which P holds, or the length of `a`
FirstWhere(a, P(_)) ==
    CHOOSE i \in 0..Len(a) :
        /\ i = Len(a) \/ P(a[i + 1])
        /\ \A j \in 0..(i - 1) : ~P(a[j + 1])

\* C19: over a sorted bit-packed array of n elements, for every n from 0 up
\* (past 8, where the unrolled loop body runs) and every probe v,
\* lower_bound returns the first i with a[i] >= v and upper_bound the first
\* i with a[i] > v, or n when there is none, and neither reads an element at
\* an index >= n; Index::lower_bound over the same keys agrees.
C19_BoundsTextbook ==
    lRet.op = "bound" =>
        LET a == ListElements(leafRef)
            AtLeast(x) == x >= lRet.value
            Above(x) == x > lRet.value
        IN  /\ lRet.lower = FirstWhere(a, AtLeast)
            /\ lRet.upper = FirstWhere(a, Above)
            /\ lRet.keys_lower = [low |-> FirstWhere(a, AtLeast), size |-> 0, oob |-> FALSE]

\* A search of nine elements, one byte each, for a value that occurs three
\* times in the middle.
C19_Witness ==
    /\ lRet.op = "bound"
    /\ fileNodes[leafRef].size = 9
    /\ fileNodes[leafRef].width = 8
    /\ lRet.lower = 3
    /\ lRet.upper = 6

(***************************************************************************)
(* SpecIndex: the key derivation                                           *)
(***************************************************************************)
\* C20: for a non-null probe b and every offset o, a multiple of 4 with
\* o <= len(b), the key in use is the big-endian packing of the four bytes
\* at o..o+4 of b followed by 'X' and zero padding, and 0 for o > len(b);
\* the key used at the root of the index (offset 0) follows the same rule.
C20_KeyDerivation ==
    fPc = "loop" => fKey = StoredKey(fValue, fOffset)

(***************************************************************************)
(* SpecProbe: Index::find_first with probes of the four indexable kinds    *)
(***************************************************************************)
\* the decimal digits of n >= 0, as ASCII bytes
RECURSIVE DecimalDigits(_)
DecimalDigits(n) ==
    IF n < 10 THEN <<48 + n>> ELSE DecimalDigits(n \div 10) \o <<48 + (n % 10)>>

\* i64::to_string
IntToString(n) == IF n < 0 THEN <<45>> \o DecimalDigits(0 - n) ELSE DecimalDigits(n)

\* bool::to_string: "true" or "false"
BoolToString(b) == IF b THEN <<116, 114, 117, 101>> ELSE <<102, 97, 108, 115, 101>>

\* Index::coerce_to_string; Panic stands for unimplemented!
coerce_to_string(value) ==
    CASE ValueVariant(value) = "String" -> [kind |-> "cow", str |-> ValueInner(value)]
      [] ValueVariant(value) = "Int" ->
            [kind |-> "cow", str |-> IntToString(ValueInner(value))]
      [] ValueVariant(value) = "Bool" ->
            [kind |-> "cow", str |-> BoolToString(ValueInner(value))]
      [] OTHER -> Panic

\* The byte string under which a value of each kind is indexed in the file:
\* raw bytes of a string, the little-endian bytes of an integer, one byte
\* for a bool, little-endian seconds followed by nanoseconds.
IndexedBytes(value) ==
    CASE ValueVariant(value) = "String" -> ValueInner(value)
      [] ValueVariant(value) = "Int" -> ToLeBytes(ValueInner(value))
      [] ValueVariant(value) = "Bool" -> <<IF ValueInner(value) THEN 1 ELSE 0>>
      [] OTHER -> ToLeBytes(ValueInner(value).secs)
                    \o SubSeq(ToLeBytes(ValueInner(value).nanos), 1, 4)

ProbeKinds == {"String", "Int", "Bool", "Timestamp"}

ProbeValues(kind) ==
    CASE kind = "String" -> {VString(<<>>), VString(<<97>>), VString(<<98>>)}
      [] kind = "Int" -> {VInt(0), VInt(7), VInt(300)}
      [] kind = "Bool" -> {VBool(FALSE), VBool(TRUE)}
      [] OTHER -> {VTimestamp([secs |-> 0, nanos |-> 0]),
                   VTimestamp([secs |-> 7, nanos |-> 0]),
                   VTimestamp([secs |-> 7, nanos |-> 5])}

ProbeColumns ==
    UNION {UNION {[1..n -> ProbeValues(kind)] : n \in 1..NumRows} : kind \in ProbeKinds}

InitProbe ==
    /\ mode = "probe"
    /\ idxColumn \in ProbeColumns
    /\ idxRoot = BuildIndex([r \in 1..Len(idxColumn) |-> IndexedBytes(idxColumn[r])])
    /\ fPc = "idle"
    /\ fProbe = <<>>
    /\ fValue = <<>>
    /\ fOffset = 0
    /\ fKey = 0
    /\ fCur = NoNode
    /\ fResult = NoneResult
    /\ TableIdle
    /\ LeafIdle
    /\ RowIdle
    /\ ExtIdle

\* find_first(&Value), up to the loop: coerce the probe, derive the first key
ProbeStart(probe) ==
    /\ mode = "probe"
    /\ fPc = "idle"
    /\ ValueVariant(probe) = ValueVariant(idxColumn[1])
    /\ fProbe' = probe
    /\ \E value \in {coerce_to_string(probe)} :
         IF value = Panic
         THEN /\ fResult' = Panic
              /\ fPc' = "done"
              /\ fValue' = <<>>
              /\ fKey' = 0
              /\ fCur' = NoNode
         ELSE /\ fResult' = NoneResult
              /\ fPc' = "loop"
              /\ fValue' = value.str
              /\ fKey' = create_key(value.str)
              /\ fCur' = idxRoot
    /\ fOffset' = 0
    /\ UNCHANGED <<idxColumn, idxRoot>>
    /\ IndexFrame

\* one iteration of the loop of find_first
ProbeLoop ==
    /\ mode = "probe"
    /\ fPc = "loop"
    /\ \E it \in {FindFirstIteration(fCur, fValue, fOffset, fKey)} :
         IF it.done
         THEN /\ fResult' = it.result
              /\ fPc' = "done"
              /\ UNCHANGED <<fCur, fOffset, fKey>>
         ELSE /\ fCur' = it.cur
              /\ fOffset' = it.offset
              /\ fKey' = it.key
              /\ fPc' = "loop"
              /\ UNCHANGED fResult
    /\ UNCHANGED <<idxColumn, idxRoot, fProbe, fValue>>
    /\ IndexFrame

NextProbe ==
    \/ \E kind \in ProbeKinds : \E probe \in ProbeValues(kind) : ProbeStart(probe)
    \/ ProbeLoop

SpecProbe == InitProbe /\ [][NextProbe]_vars

\* C21: before key derivation the probe is coerced to a byte string by its
\* kind (a string to its raw bytes, an integer to its little-endian bytes,
\* a bool to one byte 0 or 1, a timestamp to little-endian seconds followed
\* by nanoseconds), and a probe of any of the four kinds completes with a
\* result rather than aborting.
C21_ProbeCoercion ==
    /\ fPc = "loop" => fValue = IndexedBytes(fProbe)
    /\ fPc = "done" => fResult # Panic

(***************************************************************************)
(* SpecHeader: TableHeader::from_parts, the columns built from a spec      *)
(***************************************************************************)
HeaderColumnsMax == 3    \* columns declared by a table spec

HeaderTypes == {"Int", "String", "Table", "Link", "LinkList", "BackLink"}

\* A declared column: its ColumnType and the indexed bit of its attributes.
HeaderSpecs ==
    UNION {[1..n -> [type : HeaderTypes, indexed : BOOLEAN]] : n \in 1..HeaderColumnsMax}

\* ColumnType::sub_spec_entries_count
sub_spec_entries_count(type) ==
    CASE type \in {"Table", "Link", "LinkList"} -> 1
      [] type = "BackLink" -> 2
      [] OTHER -> 0

\* The data array of a table with these columns: one slot per column and one
\* more after each indexed column; slot j holds the ref 8 * j.
HeaderDataArray(cols) ==
    [j \in 1..(Len(cols) + Cardinality({k \in 1..Len(cols) : cols[k].indexed})) |-> 8 * j]

\* The sub-spec array of the same table: entry j holds the value 100 + j.
RECURSIVE SubSpecLen(_)
SubSpecLen(cols) ==
    IF cols = <<>> THEN 0
    ELSE sub_spec_entries_count(cols[Len(cols)].type) + SubSpecLen(SubSeq(cols, 1, Len(cols) - 1))

HeaderSubSpec(cols) == [j \in 1..SubSpecLen(cols) |-> 100 + j]

\* Array::get_ref / get_sub_spec_index_value on a slot: 0 stands for None
SlotAt(array, index) == IF index + 1 \in DOMAIN array THEN array[index + 1] ELSE 0

\* a round that advances the data cursor by one slot for every column
FromPartsStepOneSlot(data_array, sub_spec_array, col, st) ==
    IF st.err \/ col.type = "Link" THEN [st EXCEPT !.err = TRUE]
    ELSE [columns |-> Append(st.columns,
                        [type |-> col.type,
                         data_ref |-> SlotAt(data_array, st.data_array_index),
                         index_ref |-> IF col.indexed /\ col.type \in {"Int", "String"}
                                       THEN SlotAt(data_array, st.data_array_index + 1)
                                       ELSE 0,
                         sub |-> [j \in 1..sub_spec_entries_count(col.type) |->
                                     SlotAt(sub_spec_array, st.sub_spec_index + j - 1)]]),
          data_array_index |-> st.data_array_index + 1,
          sub_spec_index |-> st.sub_spec_index + sub_spec_entries_count(col.type),
          err |-> FALSE]

\* One round of the loop of TableHeader::from_parts (table/header.rs) for
\* column i; st = [columns, data_array_index, sub_spec_index, err].
FromPartsStep(data_array, sub_spec_array, col, st) ==
    The({ IF st.err \/ data_ref = 0 \/ (col.indexed /\ index_ref = 0)
          THEN [st EXCEPT !.err = TRUE]
          ELSE CASE col.type \in {"Int", "String"} ->
                      [columns |-> Append(st.columns,
                                     [type |-> col.type, data_ref |-> data_ref,
                                      index_ref |-> IF col.indexed THEN index_ref ELSE 0,
                                      sub |-> <<>>]),
                       data_array_index |-> st.data_array_index + (IF col.indexed THEN 2 ELSE 1),
                       sub_spec_index |-> st.sub_spec_index,
                       err |-> FALSE]
                 [] col.type \in {"LinkList", "Table"} ->
                      IF SlotAt(sub_spec_array, st.sub_spec_index) = 0
                      THEN [st EXCEPT !.err = TRUE]
                      ELSE [columns |-> Append(st.columns,
                                     [type |-> col.type, data_ref |-> data_ref,
                                      index_ref |-> 0,
                                      sub |-> <<SlotAt(sub_spec_array, st.sub_spec_index)>>]),
                            data_array_index |->
                                st.data_array_index + (IF col.indexed THEN 2 ELSE 1),
                            sub_spec_index |-> st.sub_spec_index + 1,
                            err |-> FALSE]
                 [] col.type = "BackLink" ->
                      IF \/ SlotAt(sub_spec_array, st.sub_spec_index) = 0
                         \/ SlotAt(sub_spec_array, st.sub_spec_index + 1) = 0
                      THEN [st EXCEPT !.err = TRUE]
                      ELSE [columns |-> Append(st.columns,
                                     [type |-> col.type, data_ref |-> data_ref,
                                      index_ref |-> 0,
                                      sub |-> <<SlotAt(sub_spec_array, st.sub_spec_index),
                                                SlotAt(sub_spec_array, st.sub_spec_index + 1)>>]),
                            data_array_index |->
                                st.data_array_index + (IF col.indexed THEN 2 ELSE 1),
                            sub_spec_index |-> st.sub_spec_index + 2,
                            err |-> FALSE]
                 [] OTHER -> [st EXCEPT !.err = TRUE] :
          data_ref \in {SlotAt(data_array, st.data_array_index)},
          index_ref \in {SlotAt(data_array, st.data_array_index + 1)} })

\* One round of the loop of TableHeader::from_parts in table.rs, which
\* records the data array index of the column instead of resolving it.
FromPartsSpecStep(sub_spec_array, col, st) ==
    IF st.err THEN st
    ELSE CASE col.type \in {"Table", "Link", "LinkList"} ->
                IF SlotAt(sub_spec_array, st.sub_spec_index) = 0
                THEN [st EXCEPT !.err = TRUE]
                ELSE [columns |-> Append(st.columns,
                               [type |-> col.type,
                                data_array_index |-> st.data_array_index,
                                sub |-> <<SlotAt(sub_spec_array, st.sub_spec_index)>>]),
                      data_array_index |-> st.data_array_index + (IF col.indexed THEN 2 ELSE 1),
                      sub_spec_index |-> st.sub_spec_index + 1,
                      err |-> FALSE]
           [] col.type = "BackLink" ->
                IF \/ SlotAt(sub_spec_array, st.sub_spec_index) = 0
                   \/ SlotAt(sub_spec_array, st.sub_spec_index + 1) = 0
                THEN [st EXCEPT !.err = TRUE]
                ELSE [columns |-> Append(st.columns,
                               [type |-> col.type,
                                data_array_index |-> st.data_array_index,
                                sub |-> <<SlotAt(sub_spec_array, st.sub_spec_index),
                                          SlotAt(sub_spec_array, st.sub_spec_index + 1)>>]),
                      data_array_index |-> st.data_array_index + (IF col.indexed THEN 2 ELSE 1),
                      sub_spec_index |-> st.sub_spec_index + 2,
                      err |-> FALSE]
           [] OTHER ->
                [columns |-> Append(st.columns,
                               [type |-> col.type,
                                data_array_index |-> st.data_array_index,
                                sub |-> <<>>]),
                 data_array_index |-> st.data_array_index + (IF col.indexed THEN 2 ELSE 1),
                 sub_spec_index |-> st.sub_spec_index,
                 err |-> FALSE]

HeaderStart == [columns |-> <<>>, data_array_index |-> 0, sub_spec_index |-> 0, err |-> FALSE]

\* TableHeader::from_parts of table/header.rs over the first n columns
RECURSIVE TableHeader_from_parts(_, _, _, _)
TableHeader_from_parts(data_array, sub_spec_array, cols, n) ==
    IF n = 0 THEN HeaderStart
    ELSE FromPartsStep(data_array, sub_spec_array, cols[n],
                       TableHeader_from_parts(data_array, sub_spec_array, cols, n - 1))

\* TableHeader::from_parts of table.rs over the first n columns
RECURSIVE TableHeader_from_parts_spec(_, _, _)
TableHeader_from_parts_spec(sub_spec_array, cols, n) ==
    IF n = 0 THEN HeaderStart
    ELSE FromPartsSpecStep(sub_spec_array, cols[n],
                           TableHeader_from_parts_spec(sub_spec_array, cols, n - 1))

InitHeader ==
    /\ mode = "header"
    /\ fnInput \in HeaderSpecs
    /\ fnRet = NoCall
    /\ IndexIdle
    /\ TableIdle
    /\ LeafIdle
    /\ RowIdle
    /\ FileIdle
    /\ ConcIdle
    /\ OptIdle

\* TableHeader::build of table/header.rs on the table with these columns
HeaderBuild ==
    /\ mode = "header"
    /\ \E st \in {TableHeader_from_parts(HeaderDataArray(fnInput), HeaderSubSpec(fnInput),
                                         fnInput, Len(fnInput))} :
         fnRet' = [op |-> "from_parts", kind |-> IF st.err THEN "err" ELSE "ok",
                   columns |-> st.columns]
    /\ UNCHANGED fnInput
    /\ FnFrame

\* TableHeader::build of table.rs on the same table
HeaderBuildSpec ==
    /\ mode = "header"
    /\ \E st \in {TableHeader_from_parts_spec(HeaderSubSpec(fnInput), fnInput, Len(fnInput))} :
         fnRet' = [op |-> "from_parts_spec", kind |-> IF st.err THEN "err" ELSE "ok",
                   columns |-> st.columns]
    /\ UNCHANGED fnInput
    /\ FnFrame

NextHeader ==
    \/ HeaderBuild
    \/ HeaderBuildSpec

SpecHeader == InitHeader /\ [][NextHeader]_vars

\* the data slot and the sub-spec cursor the layout gives column k (from 1)
ExpectedDataSlot(cols, k) == (k - 1) + Cardinality({j \in 1..(k - 1) : cols[j].indexed})

ExpectedSubCursor(cols, k) == SubSpecLen(SubSeq(cols, 1, k - 1))

ExpectedSub(cols, k) ==
    [j \in 1..sub_spec_entries_count(cols[k].type) |->
        HeaderSubSpec(cols)[ExpectedSubCursor(cols, k) + j]]

\* C22: column k takes its data ref from data slot k + (indexed columns
\* among 0..k-1), an indexed column its index ref from the slot right after,
\* no slot is used by two columns, and the sub-spec cursor of column k is the
\* sum over earlier columns of 1 per Table/Link/LinkList and 2 per BackLink.
C22_ColumnSlots ==
    /\ (fnRet.op = "from_parts" /\ fnRet.kind = "ok") =>
         /\ Len(fnRet.columns) = Len(fnInput)
         /\ \A k \in 1..Len(fnInput) :
              /\ fnRet.columns[k].data_ref = 8 * (ExpectedDataSlot(fnInput, k) + 1)
              /\ fnRet.columns[k].index_ref =
                    IF fnInput[k].indexed /\ fnInput[k].type \in {"Int", "String"}
                    THEN 8 * (ExpectedDataSlot(fnInput, k) + 2) ELSE 0
              /\ fnRet.columns[k].sub = ExpectedSub(fnInput, k)
         /\ \A j, k \in 1..Len(fnInput) :
              j # k => {fnRet.columns[j].data_ref, fnRet.columns[j].index_ref}
                         \cap {fnRet.columns[k].data_ref, fnRet.columns[k].index_ref}
                         \subseteq {0}
    /\ (fnRet.op = "from_parts" /\ fnRet.kind = "err") =>
         \E k \in 1..Len(fnInput) : fnInput[k].type = "Link"
    /\ fnRet.op = "from_parts_spec" =>
         /\ fnRet.kind = "ok"
         /\ Len(fnRet.columns) = Len(fnInput)
         /\ \A k \in 1..Len(fnInput) :
              /\ fnRet.columns[k].data_array_index = ExpectedDataSlot(fnInput, k)
              /\ fnRet.columns[k].sub = ExpectedSub(fnInput, k)

\* three columns built: an indexed string, a backlink, then a link list
C22_Witness ==
    /\ fnRet.op = "from_parts"
    /\ fnRet.kind = "ok"
    /\ Len(fnRet.columns) = 3
    /\ fnRet.columns[1].index_ref = 16
    /\ fnRet.columns[2].sub = <<101, 102>>
    /\ fnRet.columns[3].data_ref = 32
    /\ fnRet.columns[3].sub = <<103>>

(***************************************************************************)
(* SpecTimestamp: the timestamp column, a nullable integer leaf of seconds *)
(* beside an integer leaf of nanoseconds                                   *)
(***************************************************************************)
TsRowsMax == 2    \* rows of the timestamp column

TsSeconds == {0, 7, -1}

TsNanos == {0, 5}

TsCells == {OptNone} \cup {OptSome([secs |-> s, nanos |-> n]) : s \in TsSeconds, n \in TsNanos}

TsColumns == UNION {[1..n -> TsCells] : n \in 1..TsRowsMax}

\* The two leaves as the file stores them: a null row repeats the sentinel
\* of slot 0 in the seconds leaf and has nanoseconds 0.
TsLeaves(rows, null_value, width) ==
    <<OptLeaf([i \in 1..Len(rows) |->
                 IF rows[i].some THEN OptSome(rows[i].val.secs) ELSE OptNone],
              null_value, width),
      MakeNode([i \in 1..Len(rows) |-> IF rows[i].some THEN rows[i].val.nanos ELSE 0], 8)>>

\* DateTime<Utc>::default(), the epoch
DateTimeDefault == [secs |-> I64(0), nanos |-> 0]

\* TimestampColumn::get with both roots a leaf
TimestampColumn_get(seconds_node, nanoseconds_node, index) ==
    The({ IF seconds = Panic THEN Panic
          ELSE IF ~seconds.val.some THEN Ok(VNone)
          ELSE IF seconds.val.val = I64(0) THEN Ok(VTimestamp(DateTimeDefault))
          ELSE IF nanoseconds = Panic THEN Panic
          ELSE Ok(VTimestamp([secs |-> seconds.val.val, nanos |-> nanoseconds.val])) :
          seconds \in {IntegerArray_get_optional(seconds_node, index)},
          nanoseconds \in {IntegerArrayLeaf_get(nanoseconds_node, index)} })

\* TimestampColumn::is_null
TimestampColumn_is_null(seconds_node, index) == IntegerArray_is_null(seconds_node, index)

InitTimestamp ==
    /\ mode = "timestamp"
    /\ optRows \in TsColumns
    /\ \E null_value \in OptNulls, width \in {8, 64} :
          optNode = TsLeaves(optRows, null_value, width)
    /\ optRet = NoCall
    /\ IndexIdle
    /\ TableIdle
    /\ LeafIdle
    /\ RowIdle
    /\ FileIdle
    /\ ConcIdle
    /\ FnIdle

\* get(index) and is_null(index) on the column
TimestampGet(index) ==
    /\ mode = "timestamp"
    /\ optRet' = [op |-> "get", kind |-> "ok", index |-> index,
                  result |-> TimestampColumn_get(optNode[1], optNode[2], index),
                  is_null |-> TimestampColumn_is_null(optNode[1], index)]
    /\ UNCHANGED <<optRows, optNode>>
    /\ OptFrame

NextTimestamp ==
    \/ \E index \in 0..(Len(optRows) - 1) : TimestampGet(index)

SpecTimestamp == InitTimestamp /\ [][NextTimestamp]_vars

\* C23: get(n) of a timestamp column is null exactly when the seconds cell
\* of row n is the null sentinel (a row of seconds 0 and nanoseconds 0 may
\* also read as null, the legacy encoding); in every other case it is the
\* instant combining the seconds and the nanoseconds of row n, so the
\* nanoseconds of a non-null row are never dropped.
C23_TimestampGet ==
    optRet.op = "get" =>
        LET cell == optRows[optRet.index + 1]
        IN  IF ~cell.some THEN optRet.result = Ok(VNone)
            ELSE IF cell.val.secs = 0 /\ cell.val.nanos = 0
                 THEN optRet.result \in {Ok(VNone), Ok(VTimestamp(DateTimeDefault))}
                 ELSE optRet.result =
                        Ok(VTimestamp([secs |-> I64(cell.val.secs), nanos |-> cell.val.nanos]))

(***************************************************************************)
(* SpecSlot: decoding the slots of a node that holds refs                  *)
(***************************************************************************)
SlotsMax == 2    \* slots of the decoded node

\* null, tagged values, 8-aligned refs, and even values that are not aligned
RawSlots == {0, 1, 7, 255, 8, 16, 24, 10, 12}

SlotNodes == {MakeNode(slots, 8) : slots \in UNION {[1..n -> RawSlots] : n \in 1..SlotsMax}}

InitSlot ==
    /\ mode = "slot"
    /\ fnInput \in SlotNodes
    /\ fnRet = NoCall
    /\ IndexIdle
    /\ TableIdle
    /\ LeafIdle
    /\ RowIdle
    /\ FileIdle
    /\ ConcIdle
    /\ OptIdle

\* ArrayBasic::get_ref(index)
SlotGetRef(index) ==
    /\ mode = "slot"
    /\ fnRet' = [op |-> "get_ref", kind |-> "ok", index |-> index,
                 result |-> get_ref(fnInput, index)]
    /\ UNCHANGED fnInput
    /\ FnFrame

\* ArrayBasic::get_ref_or_tagged_value(index)
SlotGetRefOrTaggedValue(index) ==
    /\ mode = "slot"
    /\ fnRet' = [op |-> "get_ref_or_tagged_value", kind |-> "ok", index |-> index,
                 result |-> get_ref_or_tagged_value(fnInput, index)]
    /\ UNCHANGED fnInput
    /\ FnFrame

NextSlot ==
    \/ \E index \in 0..(SlotsMax - 1) : index < fnInput.size /\ SlotGetRef(index)
    \/ \E index \in 0..(SlotsMax - 1) : index < fnInput.size /\ SlotGetRefOrTaggedValue(index)

SpecSlot == InitSlot /\ [][NextSlot]_vars

\* C24: a slot with low bit 1 decodes to the tagged value slot >> 1, the
\* slot 0 to null, and every reference produced by decoding a slot is a
\* multiple of 8: an even slot that is not 8-aligned is rejected and never
\* becomes a reference.
C24_SlotDecoding ==
    LET slot == ArrayGet(fnInput, fnRet.index)
    IN  /\ fnRet.op = "get_ref" =>
             CASE slot = 0 -> fnRet.result = RVal(OptNone)
               [] slot % 8 = 0 /\ slot # 0 -> fnRet.result = RVal(OptSome(slot))
               [] OTHER -> fnRet.result = Panic
        /\ fnRet.op = "get_ref_or_tagged_value" =>
             CASE slot = 0 -> fnRet.result = RVal(OptNone)
               [] slot % 2 = 1 ->
                    fnRet.result = RVal(OptSome([tag |-> "TaggedValue", value |-> slot \div 2]))
               [] slot % 8 = 0 /\ slot # 0 ->
                    fnRet.result = RVal(OptSome([tag |-> "Ref", ref |-> slot]))
               [] OTHER ->
                    ~(fnRet.result.kind = "ok" /\ fnRet.result.val.some
                        /\ fnRet.result.val.val.tag = "Ref")

(***************************************************************************)
(* SpecNodeHeader: decoding the eight header bytes of a node               *)
(***************************************************************************)
\* NodeHeader::is_inner_bptree, has_refs and context_flag
is_inner_bptree(header) == (header.flags \div 128) % 2 = 1

has_refs(header) == (header.flags \div 64) % 2 = 1

context_flag(header) == (header.flags \div 32) % 2 = 1

\* the values of each of the three size bytes
SizeBytes == {0, 1, 10, 255}

NodeHeaderImages ==
    {<<65, 65, 65, 65, flags, hi, mid, lo>> :
        flags \in 0..255, hi \in SizeBytes, mid \in SizeBytes, lo \in SizeBytes}

InitNodeHeader ==
    /\ mode = "nodeheader"
    /\ fnInput \in NodeHeaderImages
    /\ fnRet = NoCall
    /\ IndexIdle
    /\ TableIdle
    /\ LeafIdle
    /\ RowIdle
    /\ FileIdle
    /\ ConcIdle
    /\ OptIdle

\* NodeHeader::parse(buf) and the accessors of the parsed header
NodeHeaderDecode ==
    /\ mode = "nodeheader"
    /\ \E parsed \in {NodeHeader_parse(fnInput)} :
         fnRet' = IF parsed.kind # "ok" THEN [op |-> "parse", kind |-> parsed.kind]
                  ELSE [op |-> "parse", kind |-> "ok",
                        size |-> parsed.val.size,
                        is_inner_bptree |-> is_inner_bptree(parsed.val),
                        has_refs |-> has_refs(parsed.val),
                        context_flag |-> context_flag(parsed.val),
                        width_scheme |-> width_scheme(parsed.val),
                        width |-> header_width(parsed.val),
                        payload_len |-> NodeHeader_payload_len(parsed.val)]
    /\ UNCHANGED fnInput
    /\ FnFrame

NextNodeHeader ==
    \/ NodeHeaderDecode

SpecNodeHeader == InitNodeHeader /\ [][NextNodeHeader]_vars

\* bit `bit` (7 = highest) of a byte
BitOf(byte, bit) == (byte \div Pow2(bit)) % 2 = 1

BpTree_count(heap, root_ref) ==
    IF ~heap[root_ref].inner THEN LeafSize(heap[root_ref])
    ELSE get_bptree_size(heap[root_ref])

CountWidths == {2, 8}

InitCount ==
    /\ mode = "count"
    /\ leafKind \in LeafKinds
    /\ \E width \in CountWidths, n \in 0..LeafSizeMax, epc \in 1..2 :
         \E cells \in [1..n -> SlotValues(leafKind, width)],
            null_value \in SlotValues(leafKind, width) :
               /\ leafKind \in NullableKinds \/ null_value = 0
               /\ fileNodes = ColumnNodes(leafKind, width, null_value, cells, epc)
    /\ leafRef = LeafRefOf(0)
    /\ treeRef = LeafRefOf(1)
    /\ lRet = NoCall
    /\ IndexIdle
    /\ TableIdle
    /\ RowIdle
    /\ ExtIdle

\* count() of the column under both roots
ColumnCount ==
    /\ mode = "count"
    /\ lRet' = [op |-> "count", kind |-> "ok",
                leaf_count |-> BpTree_count(fileNodes, leafRef),
                tree_count |-> BpTree_count(fileNodes, treeRef)]
    /\ UNCHANGED <<leafKind, fileNodes, leafRef, treeRef>>
    /\ LeafFrame

\* get(index) for an index below count(), on the column stored as a root leaf
CountedGet(index) ==
    /\ mode = "count"
    /\ index < BpTree_count(fileNodes, leafRef)
    /\ lRet' = [op |-> "counted_get", kind |-> "ok", index |-> index,
                result |-> BpTreeGet(leafKind, fileNodes, leafRef, index)]
    /\ UNCHANGED <<leafKind, fileNodes, leafRef, treeRef>>
    /\ LeafFrame

NextCount ==
    \/ ColumnCount
    \/ \E index \in 0..LeafSizeMax : CountedGet(index)

SpecCount == InitCount /\ [][NextCount]_vars

\* C26: for every column and every n < count(), get(n) reads only slots that
\* exist and succeeds; for a nullable column whose root is a leaf, count() is
\* the number of logical rows (the node size minus the sentinel slot) and
\* equals the count reported for the same rows under an inner root.
C26_CountAdmitsRows ==
    /\ lRet.op = "count" =>
         /\ lRet.leaf_count = ColumnCells(leafKind, fileNodes, leafRef)
         /\ lRet.leaf_count = lRet.tree_count
    /\ lRet.op = "counted_get" => lRet.result # Panic

(***************************************************************************)
(* SpecString: the string column over a short-string leaf and over a       *)
(* medium-string (small blobs) leaf                                        *)
(***************************************************************************)
StrRowsMax == 2    \* rows of the string column

StrWidth == 4      \* bytes per element of the short-string leaf

StrCells == {OptNone, OptSome(<<>>), OptSome(<<97>>), OptSome(<<97, 98>>)}

StrColumns == UNION {[1..n -> StrCells] : n \in 1..StrRowsMax}

RECURSIVE Flatten(_)
Flatten(seqs) == IF seqs = <<>> THEN <<>> ELSE Head(seqs) \o Flatten(Tail(seqs))

\* One element of a short-string leaf: the bytes, zero padding, and in the
\* last byte the number of padding zeros; a null is all zeros with the last
\* byte equal to the width.
ShortElement(cell) ==
    IF ~cell.some THEN [i \in 1..StrWidth |-> IF i = StrWidth THEN StrWidth ELSE 0]
    ELSE cell.val \o [i \in 1..(StrWidth - Len(cell.val)) |->
                        IF i = StrWidth - Len(cell.val)
                        THEN StrWidth - 1 - Len(cell.val) ELSE 0]

StrRootRef == LeafRefOf(0)

\* The column as one short-string leaf.
ShortStringNodes(rows) ==
    StrRootRef :> [inner |-> FALSE, has_refs |-> FALSE, context_flag |-> FALSE,
                   width |-> StrWidth, size |-> Len(rows),
                   payload |-> Flatten([i \in 1..Len(rows) |-> ShortElement(rows[i])])]

\* The column as one medium-string leaf: the end offset of each string in
\* the blob, the blob of zero-terminated strings, and per row a 0 for null.
SmallBlobsNodes(rows) ==
    LET blob(i) == IF rows[i].some THEN rows[i].val \o <<0>> ELSE <<>>
        blobs == Flatten([i \in 1..Len(rows) |-> blob(i)])
        ends == [i \in 1..Len(rows) |-> Len(Flatten([j \in 1..i |-> blob(j)]))]
    IN  (StrRootRef :> [inner |-> FALSE, has_refs |-> TRUE, context_flag |-> FALSE,
                        width |-> 8, size |-> 3, payload |-> <<40, 48, 56>>])
        @@ (40 :> MakeNode(ends, 8))
        @@ (48 :> MakeNode(blobs, 8))
        @@ (56 :> MakeNode([i \in 1..Len(rows) |-> IF rows[i].some THEN 1 ELSE 0], 8))

\* ArrayStringShort::get_static
ArrayStringShort_get_static(node, index) ==
    IF node.width = 0 THEN RVal(OptNone)
    ELSE IF (index + 1) * node.width > Len(node.payload) THEN Panic
    ELSE The({ IF element_data[node.width] = node.width THEN RVal(OptNone)
               ELSE IF node.width - 1 - element_data[node.width] < 0 THEN Panic
               ELSE RVal(OptSome(SubSeq(element_data, 1,
                                        node.width - 1 - element_data[node.width]))) :
               element_data \in {SubSeq(node.payload, index * node.width + 1,
                                        (index + 1) * node.width)} })

\* ArrayLike<Option<String>>::is_null for ArrayStringShort
ArrayStringShort_is_null(node, index) ==
    IF node.width = 0 THEN RVal(TRUE)
    ELSE IF index * node.width + node.width > Len(node.payload) THEN Panic
    ELSE RVal(node.payload[index * node.width + node.width] = node.width)

\* ArrayLike<Option<Vec<u8>>>::get for SmallBlobsArray over the nodes
\* lengths, blobs and null
SmallBlobsArray_get(lengths, blobs, null, index) ==
    The({ IF is_null = -1 \/ is_null > 1 THEN Panic
          ELSE IF is_null = 0 THEN RVal(OptNone)
          ELSE IF begin = -1 \/ end = -1 \/ end <= begin \/ end > Len(blobs.payload)
               THEN Panic
          ELSE RVal(OptSome(SubSeq(blobs.payload, begin + 1, end))) :
          is_null \in {ArrayGet(null, index)},
          begin \in {IF index = 0 THEN 0 ELSE ArrayGet(lengths, index - 1)},
          end \in {ArrayGet(lengths, index)} })

\* ArrayLike<Option<Vec<u8>>>::is_null for SmallBlobsArray
SmallBlobsArray_is_null(null, index) ==
    The({ IF v = -1 THEN Panic ELSE RVal(v = 0) : v \in {ArrayGet(null, index)} })

\* ArrayString::string_from_bytes: the bytes without the trailing zero
string_from_bytes(bytes) ==
    IF bytes = <<>> \/ bytes[Len(bytes)] # 0 THEN Panic
    ELSE RVal(SubSeq(bytes, 1, Len(bytes) - 1))

\* StringColumn::get with a leaf root
StringColumn_get(heap, root_ref, index) ==
    IF ~heap[root_ref].has_refs
    THEN The({ IF s = Panic THEN Panic
               ELSE IF s.val.some THEN RVal(VString(s.val.val))
               ELSE RVal(VString(<<>>)) :
               s \in {ArrayStringShort_get_static(heap[root_ref], index)} })
    ELSE The({ IF bytes = Panic THEN Panic
               ELSE IF ~bytes.val.some THEN RVal(VNone)
               ELSE IF string_from_bytes(bytes.val.val) = Panic THEN Panic
               ELSE RVal(VString(string_from_bytes(bytes.val.val).val)) :
               bytes \in {SmallBlobsArray_get(heap[heap[root_ref].payload[1]],
                                              heap[heap[root_ref].payload[2]],
                                              heap[heap[root_ref].payload[3]], index)} })

\* StringColumn::is_null
StringColumn_is_null(heap, root_ref, nullable, index) ==
    The({ IF value = Panic THEN Panic ELSE RVal(nullable /\ value = RVal(VNone)) :
          value \in {StringColumn_get(heap, root_ref, index)} })

\* whether the file holds a null at row `index`: the trailing count byte of a
\* short element equals the width; the null array of a medium leaf holds 0
StoredNull(heap, root_ref, index) ==
    IF ~heap[root_ref].has_refs
    THEN heap[root_ref].payload[(index + 1) * heap[root_ref].width] = heap[root_ref].width
    ELSE heap[heap[root_ref].payload[3]].payload[index + 1] = 0

InitString ==
    /\ mode = "string"
    /\ leafKind \in {"string", "string_opt"}
    /\ \E rows \in StrColumns :
         /\ leafKind = "string" => \A i \in 1..Len(rows) : rows[i].some
         /\ fileNodes \in {ShortStringNodes(rows), SmallBlobsNodes(rows)}
    /\ leafRef = StrRootRef
    /\ treeRef = 0
    /\ lRet = NoCall
    /\ IndexIdle
    /\ TableIdle
    /\ RowIdle
    /\ ExtIdle

\* get(index) and is_null(index) on the column, and on the short-string leaf
\* object where the root is one
StringRead(index) ==
    /\ mode = "string"
    /\ index < (IF fileNodes[leafRef].has_refs THEN fileNodes[40].size
                ELSE fileNodes[leafRef].size)
    /\ lRet' = [op |-> "string", kind |-> "ok", index |-> index,
                value |-> StringColumn_get(fileNodes, leafRef, index),
                is_null |-> StringColumn_is_null(fileNodes, leafRef,
                                                 leafKind = "string_opt", index),
                leaf_value |->
                    IF fileNodes[leafRef].has_refs
                    THEN SmallBlobsArray_get(fileNodes[40], fileNodes[48], fileNodes[56], index)
                    ELSE ArrayStringShort_get_static(fileNodes[leafRef], index),
                leaf_is_null |->
                    IF fileNodes[leafRef].has_refs
                    THEN SmallBlobsArray_is_null(fileNodes[56], index)
                    ELSE ArrayStringShort_is_null(fileNodes[leafRef], index)]
    /\ UNCHANGED <<leafKind, fileNodes, leafRef, treeRef>>
    /\ LeafFrame

NextString ==
    \/ \E index \in 0..(StrRowsMax - 1) : StringRead(index)

SpecString == InitString /\ [][NextString]_vars

\* C27: for every in-range row n, is_null(n) is true exactly when get(n) is
\* the null value; on a short-string leaf that is exactly when the trailing
\* count byte equals the width (a zero-length string, count = width - 1, is
\* not null), on a medium-string leaf exactly when the row is marked null.
C27_NullAgreesWithGet ==
    lRet.op = "string" =>
        /\ lRet.value # Panic
        /\ lRet.is_null # Panic
        /\ lRet.is_null.val <=> (lRet.value = RVal(VNone))
        /\ lRet.is_null.val <=> StoredNull(fileNodes, leafRef, lRet.index)

(***************************************************************************)
(* SpecConv: From<T> for Value followed by TryFrom<Value> for T            *)
(***************************************************************************)
ConvMax == 9    \* the sample values of each type are built from 0..ConvMax

\* `value as f32`: a float is kept as an integer; an f32 holds 24 bits of it,
\* rounded to the nearest even mantissa (for values below 2^25)
AsF32(x) ==
    IF x <= 16777216 \/ x % 2 = 0 THEN x
    ELSE IF (x \div 2) % 2 = 0 THEN x - 1 ELSE x + 1

ConvSamples(target) ==
    CASE target = "i64" -> {k - 3 : k \in 0..ConvMax}
      [] target = "bool" -> BOOLEAN
      [] target = "String" -> {[i \in 1..(k % 3) |-> 97 + k \div 3] : k \in 0..ConvMax}
      [] target = "f32" -> {15 + k : k \in 0..ConvMax}
      [] target = "f64" -> {25 + k : k \in 0..ConvMax} \cup {16777217}
      [] target = "DateTime<Utc>" -> {1000 + k : k \in 0..ConvMax}
      [] target = "Link" -> {Link(k) : k \in 0..ConvMax}
      [] OTHER -> {Backlink(<<k>>) : k \in 0..ConvMax}

\* From<T> for Value, by the type T of the argument
Value_from(target, x) ==
    CASE target = "i64" -> VInt(x)
      [] target = "bool" -> VBool(x)
      [] target = "String" -> VString(x)
      [] target = "DateTime<Utc>" -> VTimestamp(x)
      [] target = "f32" -> VFloat(x)
      [] target = "f64" -> VFloat(AsF32(x))
      [] target = "Link" -> VLink(x)
      [] OTHER -> VBackLink(x)

\* From<Option<T>> for Value
Value_from_option(target, opt) ==
    IF opt.some THEN Value_from(target, opt.val) ELSE VNone

InitConv ==
    /\ mode = "conv"
    /\ RowIdle
    /\ IndexIdle
    /\ TableIdle
    /\ LeafIdle
    /\ ExtIdle

\* T::try_from(Value::from(x))
RoundTrip(tg, x) ==
    /\ mode = "conv"
    /\ ~tg.option
    /\ vRet' = [op |-> "round_trip", kind |-> "ok", target |-> tg, input |-> x,
                result |-> value_try_into(tg, Value_from(tg.target, x))]
    /\ UNCHANGED <<rowCells, rowObj>>
    /\ RowFrame

\* Option<T>::try_from(Value::from(opt))
RoundTripOption(tg, opt) ==
    /\ mode = "conv"
    /\ tg.option
    /\ vRet' = [op |-> "round_trip", kind |-> "ok", target |-> tg, input |-> opt,
                result |-> value_try_into(tg, Value_from_option(tg.target, opt))]
    /\ UNCHANGED <<rowCells, rowObj>>
    /\ RowFrame

NextConv ==
    \/ \E tg \in ValueTargets : \E x \in ConvSamples(tg.target) : RoundTrip(tg, x)
    \/ \E tg \in ValueTargets :
          \E opt \in {OptNone} \cup {OptSome(x) : x \in ConvSamples(tg.target)} :
             RoundTripOption(tg, opt)

SpecConv == InitConv /\ [][NextConv]_vars

\* C28: for every type T among i64, bool, String, f32, f64, DateTime<Utc>,
\* Link and Backlink and every x of type T, T::try_from(Value::from(x)) is
\* Ok(x); likewise Option<T>::try_from(Value::from(None)) is Ok(None) and
\* Some(x) comes back as Ok(Some(x)) for the nullable targets.
C28_ValueRoundTrip ==
    vRet.op = "round_trip" => vRet.result = Ok(vRet.input)

(***************************************************************************)
(* SpecDescent: the two descent loops, one iteration per step              *)
(***************************************************************************)
\* One iteration of the loop of BpTreeNode::get_bptree_leaf standing on the
\* inner node `node` with `index`: the leaf found (or the error), or the
\* inner child to continue in.
get_bptree_leaf_iteration(heap, node, index) ==
    The({ IF found.bad \/ found.child \notin DOMAIN heap
          THEN [done |-> TRUE, found |-> NoChild]
          ELSE IF ~heap[found.child].inner THEN [done |-> TRUE, found |-> found]
          ELSE [done |-> FALSE, node |-> found.child, index |-> found.index] :
        found \in {find_bptree_child_in_payload(heap, node.payload, node.width, index)} })

\* A run is either over an indexed column or over a B+Tree file.
InitDescent ==
    /\ mode = "descent"
    /\ \/ /\ idxColumn \in IndexColumns
          /\ idxRoot = BuildIndex(idxColumn)
          /\ fPc = "idle"
          /\ fProbe = <<>>
          /\ fValue = <<>>
          /\ fOffset = 0
          /\ fKey = 0
          /\ fCur = NoNode
          /\ fResult = NoneResult
          /\ LeafIdle
       \/ /\ IndexIdle
          /\ leafKind = "int"
          /\ fileNodes \in TreeFiles
          /\ leafRef = 0
          /\ treeRef = 8
          /\ lRet = NoCall
    /\ TableIdle
    /\ RowIdle
    /\ ExtIdle

\* find_first, up to the loop
DescentFindStart(probe) ==
    /\ mode = "descent"
    /\ idxColumn # <<>>
    /\ fPc = "idle"
    /\ fProbe' = probe
    /\ fValue' = probe
    /\ fOffset' = 0
    /\ fKey' = create_key(probe)
    /\ fCur' = idxRoot
    /\ fResult' = NoneResult
    /\ fPc' = "loop"
    /\ UNCHANGED <<idxColumn, idxRoot>>
    /\ IndexFrame

\* one iteration of the loop of find_first
DescentFindLoop ==
    /\ mode = "descent"
    /\ fPc = "loop"
    /\ LET it == FindFirstIteration(fCur, fValue, fOffset, fKey)
       IN  IF it.done
           THEN /\ fResult' = it.result
                /\ fPc' = "done"
                /\ UNCHANGED <<fCur, fOffset, fKey>>
           ELSE /\ fCur' = it.cur
                /\ fOffset' = it.offset
                /\ fKey' = it.key
                /\ fPc' = "loop"
                /\ UNCHANGED fResult
    /\ UNCHANGED <<idxColumn, idxRoot, fProbe, fValue>>
    /\ IndexFrame

\* the caller takes the result of find_first
DescentFindReturn ==
    /\ mode = "descent"
    /\ fPc = "done"
    /\ fPc' = "idle"
    /\ fProbe' = <<>>
    /\ fValue' = <<>>
    /\ fOffset' = 0
    /\ fKey' = 0
    /\ fCur' = NoNode
    /\ fResult' = NoneResult
    /\ UNCHANGED <<idxColumn, idxRoot>>
    /\ IndexFrame

\* get_bptree_leaf(index), up to the loop: the loop stands on the root
LeafDescentStart(index) ==
    /\ mode = "descent"
    /\ treeRef # 0
    /\ fnRet.op = "none"
    /\ fnInput' = <<index>>
    /\ fnRet' = [op |-> "descend", kind |-> "ok", node |-> treeRef,
                 index |-> index, iterations |-> 0]
    /\ FnFrame

\* one iteration of the loop of get_bptree_leaf
LeafDescentLoop ==
    /\ mode = "descent"
    /\ fnRet.op = "descend"
    /\ LET it == get_bptree_leaf_iteration(fileNodes, fileNodes[fnRet.node], fnRet.index)
       IN  IF it.done
           THEN fnRet' = [op |-> "leaf", kind |-> "ok", found |-> it.found,
                          iterations |-> fnRet.iterations + 1]
           ELSE fnRet' = [fnRet EXCEPT !.node = it.node, !.index = it.index,
                                       !.iterations = @ + 1]
    /\ UNCHANGED fnInput
    /\ FnFrame

\* the caller takes the result of get_bptree_leaf
LeafDescentReturn ==
    /\ mode = "descent"
    /\ fnRet.op = "leaf"
    /\ fnInput' = <<>>
    /\ fnRet' = NoCall
    /\ FnFrame

NextDescent ==
    \/ \E probe \in IndexValues : DescentFindStart(probe)
    \/ DescentFindLoop
    \/ DescentFindReturn
    \/ \E index \in (IF treeRef = 0 THEN {}
                      ELSE 0..(get_bptree_size(fileNodes[treeRef]) - 1)) :
          LeafDescentStart(index)
    \/ LeafDescentLoop
    \/ LeafDescentReturn

SpecDescent == InitDescent /\ [][NextDescent]_vars

\* A call that is inside one of the loops runs its next iteration.
FairDescent ==
    SpecDescent /\ WF_vars(DescentFindLoop) /\ WF_vars(LeafDescentLoop)

SetMax(S) == CHOOSE m \in S : \A x \in S : x <= m

\* the nodes in the slots of an index node
IndexChildren(node) ==
    {node.slots[i].node : i \in {j \in 1..Len(node.slots) :
                                    node.slots[j].kind \in {"child", "sub"}}}

RECURSIVE IndexHeight(_)
IndexHeight(node) ==
    IF IndexChildren(node) = {} THEN 0
    ELSE 1 + SetMax({IndexHeight(c) : c \in IndexChildren(node)})

\* the refs in the child slots of an inner B+Tree node
TreeChildren(heap, ref) ==
    {read_array_value(heap[ref].payload, heap[ref].width, c) :
        c \in 1..(heap[ref].size - 2)}

RECURSIVE TreeDepth(_, _)
TreeDepth(heap, ref) ==
    IF ~heap[ref].inner THEN 0
    ELSE 1 + SetMax({TreeDepth(heap, c) : c \in TreeChildren(heap, ref)})

\* an iteration of get_bptree_leaf that does not return moves to an inner
\* node that is a child of the node it stood on
LeafDescentStep ==
    (fnRet.op = "descend" /\ fnRet'.op = "descend") =>
        /\ fnRet'.node \in TreeChildren(fileNodes, fnRet.node)
        /\ fileNodes[fnRet'.node].inner
        /\ TreeDepth(fileNodes, fnRet'.node) < TreeDepth(fileNodes, fnRet.node)

\* an iteration of find_first that does not end the call moves to a node in
\* a slot of the node it stood on; into a sub-index it advances the offset
\* by KEY_SIZE, below an inner node it keeps offset and key; an iteration
\* that ends the call leaves the offset alone
FindDescentStep ==
    /\ (fPc = "loop" /\ fPc' = "loop") =>
          /\ fCur' \in IndexChildren(fCur)
          /\ IndexHeight(fCur') < IndexHeight(fCur)
          /\ IF fCur.inner
             THEN fOffset' = fOffset /\ fKey' = fKey
             ELSE fOffset' = fOffset + 4
    /\ (fPc = "loop" /\ fPc' = "done") => fOffset' = fOffset

\* C29: on every file whose node graph is acyclic both descent loops
\* terminate: get_bptree_leaf moves to a strict descendant inner node on
\* every iteration and ends after at most tree-depth iterations, and
\* find_first on every iteration either ends the call or moves to a strictly
\* deeper index node, advancing the value offset by exactly 4 when and only
\* when it enters a sub-index and leaving key and offset unchanged when it
\* descends an inner B+Tree index node.
C29_DescentTerminates ==
    /\ [][LeafDescentStep /\ FindDescentStep]_vars
    /\ [](fnRet.op \in {"descend", "leaf"} =>
             fnRet.iterations <= TreeDepth(fileNodes, treeRef))
    /\ (fnRet.op = "descend") ~> (fnRet.op = "leaf")
    /\ (fPc = "loop") ~> (fPc = "done")

\* find_first has entered a sub-index whose root is an inner node, has gone
\* below it and has returned a row from the leaf there.
C29_Witness ==
    /\ mode = "descent"
    /\ fPc = "done"
    /\ fOffset = 4
    /\ fCur \in UNION {IndexChildren(n) : n \in {m \in IndexChildren(idxRoot) : m.inner}}
    /\ fResult.kind = "some"

(***************************************************************************)
(* The row cache of a table across calls (SpecTable)                       *)
(***************************************************************************)
\* every row cached before the step is cached after it, with the same values
RowCacheKept ==
    \A j \in 1..Len(data_rows) :
        data_rows[j].some => (Len(data_rows') >= j /\ data_rows'[j] = data_rows[j])

\* the cache holds exactly the rows 0..row_count-1 of the file
RowCacheComplete ==
    /\ Len(data_rows) = row_count(tblFile)
    /\ \A j \in 1..Len(data_rows) :
          data_rows[j] = OptSome([c \in 1..column_count |->
                                     read_column_row(tblFile, c - 1, j - 1)])

\* C30: the table's row cache only grows: after ensure_row_loaded(i) (called
\* by get_row, get_rows and the indexed find) every row that was cached before
\* the call is still cached with the same values, for any order of row
\* numbers, and after get_rows the cache holds exactly rows 0..row_count-1.
C30_RowCacheOnlyGrows ==
    /\ [][RowCacheKept]_vars
    /\ [](tRet.op = "get_rows" => RowCacheComplete)

====
